---- MODULE Spec2Model ----
(***************************************************************************)
(* A model of spotify-mcp: the tool dispatcher of server.py                *)
(* (handle_call_tool) and the Spotify client of spotify_api.py (Client).   *)
(*                                                                         *)
(* Python strings that the code slices, splits or searches (tool names,    *)
(* Spotify URIs) are sequences of one-character strings, so that           *)
(* name[:7], uri.startswith(..), uri.split(":") and "track" in uri are     *)
(* computed as the code computes them.  Messages that are only built and   *)
(* returned are sequences of text pieces.                                  *)
(*                                                                         *)
(* A client method is an operator that returns an outcome record           *)
(*   [exc, msg, val, calls, user]                                          *)
(* exc = "none" for a normal return, else the class of the exception that  *)
(* leaves the method; calls is the ordered log of the remote requests the  *)
(* method made; user is the value of Client.username afterwards.           *)
(* handle_call_tool is declared async and contains no await: each tool     *)
(* call is one atomic action.                                              *)
(***************************************************************************)
EXTENDS Integers, Sequences, FiniteSets, TLC

\* ------------------------------------------------------------------ bounds
\* pages of a listing, entries of a page
MaxPages == 3
MaxPageSize == 2
\* pages of a listing in a tool call
MaxCallPages == 2
\* num_skips, limit, documents of a local search answer
MaxSkips == 2
MaxLimit == 2
MaxDocs == 2
\* places of the client whose remote requests fail in one tool call
MaxFaults == 2
\* The longest device list the remote service reports.
MaxDevices == 3
\* The most profile fetches of searches that are counted.
MaxFetches == 2
\* The most tool calls the event loop holds at a time.
MaxTasks == 2

\* ------------------------------------------------------------ python values
\* Python None, as a value of the same shape as a string (a sequence).
NoneV == <<"<None>">>

\* s[:n]
Prefix(s, n) == SubSeq(s, 1, IF n < Len(s) THEN n ELSE Len(s))

\* s[n:]
Suffix(s, n) == SubSeq(s, n + 1, Len(s))

\* s.startswith(p)
StartsWith(s, p) == Len(p) <= Len(s) /\ SubSeq(s, 1, Len(p)) = p

\* p in s
Contains(s, p) ==
    \E i \in 0..(Len(s) - Len(p)) : SubSeq(s, i + 1, i + Len(p)) = p

\* s.split(sep)[-1] for a one-character sep: what follows the last sep.
LastPart(s, sep) ==
    IF \A i \in 1..Len(s) : s[i] # sep THEN s
    ELSE LET i == CHOOSE k \in 1..Len(s) :
                     s[k] = sep /\ \A j \in (k + 1)..Len(s) : s[j] # sep
         IN  SubSeq(s, i + 1, Len(s))

\* len(s.split(sep)) for a one-character sep.
NumParts(s, sep) == Cardinality({i \in 1..Len(s) : s[i] = sep}) + 1

\* s.split(sep)[1] when there are at least two parts.
SecondPart(s, sep) ==
    LET seps == {i \in 1..Len(s) : s[i] = sep}
        a == CHOOSE k \in seps : \A j \in seps : k <= j
        rest == {j \in seps : j > a}
        b == IF rest = {} THEN Len(s) + 1
             ELSE CHOOSE k \in rest : \A j \in rest : k <= j
    IN  SubSeq(s, a + 1, b - 1)

\* ------------------------------------------------------------------ text
cSpotify == <<"S", "p", "o", "t", "i", "f", "y">>
cPlayback == <<"P", "l", "a", "y", "b", "a", "c", "k">>
cSearch == <<"S", "e", "a", "r", "c", "h">>
cQueue == <<"Q", "u", "e", "u", "e">>
cGetInfo == <<"G", "e", "t", "I", "n", "f", "o">>
cPlaylist == <<"P", "l", "a", "y", "l", "i", "s", "t">>

sSpotify == <<"s", "p", "o", "t", "i", "f", "y">>
sTrack == <<"t", "r", "a", "c", "k">>
sPlaylist == <<"p", "l", "a", "y", "l", "i", "s", "t">>
sAlbum == <<"a", "l", "b", "u", "m">>
sArtist == <<"a", "r", "t", "i", "s", "t">>
sHttp == <<"h", "t", "t", "p">>
sWebHost == <<"h", "t", "t", "p", "s", ":", "/", "/", "o", ".", "c", "o">>
sTrackPrefix == sSpotify \o <<":">> \o sTrack \o <<":">>

\* -------------------------------------------------------------- outcomes
\* The outcome before any request of a tool call, with the username known
\* so far.
Begin(user) ==
    [exc |-> "none", msg |-> "", val |-> NoneV, calls |-> <<>>, user |-> user]

\* A normal return of val after the outcome r.
Ret(r, val) ==
    [exc |-> "none", msg |-> "", val |-> val, calls |-> r.calls, user |-> r.user]

\* An exception of class exc with str(e) = msg, raised after the outcome r.
Exc(r, exc, msg) ==
    [exc |-> exc, msg |-> msg, val |-> NoneV, calls |-> r.calls, user |-> r.user]

\* One request to the remote service (a spotipy call) or to the local
\* search endpoint.
Call(op, args) == [op |-> op, args |-> args]

\* The outcome r with one more request logged.
Req(r, op, args) == [r EXCEPT !.calls = Append(@, Call(op, args))]

\* The remote requests made at this place of the client fail in this tool
\* call; a place is named by the spotipy method it calls, but for the lookup
\* of the is_valid_* methods ("is_valid") and that of get_info ("get_info").
Fails(o, site) == site \in o.bad

\* The request op made at a place after the outcome r: it raises the
\* environment's exception or returns val.
Remote(r, site, op, args, o, val) ==
    IF Fails(o, site) THEN Exc(Req(r, op, args), o.exc, o.emsg)
    ELSE Ret(Req(r, op, args), val)

\* `not x` for a string or None.
Falsy(x) == x = NoneV \/ x = <<>>

\* ---------------------------------------------------------- URI handling
\* urlparse(uri).path: what follows the host, up to a query or fragment.
UrlPath(uri) ==
    LET marks == {i \in 1..(Len(uri) - 2) : SubSeq(uri, i, i + 2) = <<":", "/", "/">>}
        start == IF marks = {} THEN 1
                 ELSE (CHOOSE k \in marks : \A j \in marks : k <= j) + 3
        slashes == {i \in start..Len(uri) : uri[i] = "/"}
        first == IF slashes = {} THEN Len(uri) + 1
                 ELSE CHOOSE k \in slashes : \A j \in slashes : k <= j
        stops == {i \in first..Len(uri) : uri[i] \in {"?", "#"}}
        last == IF stops = {} THEN Len(uri)
                ELSE (CHOOSE k \in stops : \A j \in stops : k <= j) - 1
    IN  SubSeq(uri, first, last)

\* Client._extract_id_from_uri raises on None, which has no startswith.
ExtractRaises(uri) == uri = NoneV

\* Client._extract_id_from_uri.
_extract_id_from_uri(uri) ==
    IF StartsWith(uri, sSpotify \o <<":">>) THEN LastPart(uri, ":")
    ELSE IF StartsWith(uri, sHttp) THEN LastPart(UrlPath(uri), "/")
    ELSE uri

\* ------------------------------------------------------------- devices
\* Client.get_devices: sp.devices()['devices'].
get_devices(p, st, o) == Remote(p, "devices", "devices", <<>>, o, st.devices)

\* Client.is_active_device, on a device list.
is_active_device(devs) == \E i \in 1..Len(devs) : devs[i].is_active

\* Client.is_active_device after its get_devices gave d.
ActiveChecked(d) ==
    IF d.exc # "none" THEN d ELSE Ret(d, is_active_device(d.val))

\* The first listed device, whatever its flag.
FirstListedDevice(devs) == devs[1]

\* Client._get_candidate_device, on a non-empty device list.
_get_candidate_device(devs) ==
    IF is_active_device(devs)
    THEN devs[CHOOSE i \in 1..Len(devs) :
                  devs[i].is_active /\ \A j \in 1..(i - 1) : ~devs[j].is_active]
    ELSE devs[1]

\* Client._get_candidate_device after its get_devices gave d.
ValidateCandidate(d) ==
    IF d.exc # "none" THEN d
    ELSE IF d.val = <<>>
    THEN Exc(d, "ConnectionError", "No active device. Is Spotify open?")
    ELSE Ret(d, _get_candidate_device(d.val).id)

\* utils.validate after the get_devices of is_active_device gave d.
ValidateDevice(d, st, o) ==
    IF d.exc # "none" THEN d
    ELSE IF is_active_device(d.val) THEN Ret(d, "None")
    ELSE ValidateCandidate(get_devices(d, st, o))

\* utils.validate, the decorator of the device-bound client methods: refresh
\* the token when it is not valid, and when no device is active pass the
\* candidate device on as `device`.  val is the id of that device, or
\* "None" when a device is active and none is passed.
validate(p, st, o) ==
    IF Fails(o, "auth_refresh") THEN Exc(p, o.exc, o.emsg)
    ELSE ValidateDevice(get_devices(p, st, o), st, o)

\* ------------------------------------------------------------ playback
\* Client.get_current_track: None when nothing is playing or the item is
\* not a track, else the track with its is_playing flag; a remote failure
\* is logged and re-raised.
get_current_track(p, st, o) ==
    Remote(p, "current_user_playing_track", "current_user_playing_track", <<>>, o,
           [some |-> st.playback.item = "track",
            is_playing |-> st.playback.item = "track" /\ st.playback.is_playing])

\* Client.is_track_playing after its get_current_track gave c.
IsPlaying(c) ==
    IF c.exc # "none" THEN c ELSE Ret(c, c.val.some /\ c.val.is_playing)

\* Client.is_track_playing.
is_track_playing(p, st, o) == IsPlaying(get_current_track(p, st, o))

\* The uris and context_uri that Client.start_playback passes on.
PlaybackTarget(spotify_uri) ==
    IF spotify_uri # NoneV
    THEN IF StartsWith(spotify_uri, sTrackPrefix)
         THEN [uris |-> spotify_uri, context_uri |-> NoneV]
         ELSE [uris |-> NoneV, context_uri |-> spotify_uri]
    ELSE [uris |-> NoneV, context_uri |-> NoneV]

\* The remote start request of Client.start_playback, after its checks.
StartRemote(r, device_id, spotify_uri, o) ==
    Remote(r, "start_playback", "start_playback",
           <<PlaybackTarget(spotify_uri).uris,
             PlaybackTarget(spotify_uri).context_uri, device_id>>,
           o, "started")

\* Client.start_playback without a URI, after get_current_track gave c.
StartCurrent(c, device_id, spotify_uri, o) ==
    IF c.exc # "none" THEN c
    ELSE IF ~c.val.some
    THEN Exc(c, "ValueError", "No track_id provided and no current playback to resume.")
    ELSE StartRemote(c, device_id, spotify_uri, o)

\* Client.start_playback without a URI, after is_track_playing gave pl.
StartResume(pl, device_id, spotify_uri, st, o) ==
    IF pl.exc # "none" THEN pl
    ELSE IF pl.val THEN Ret(pl, "already")
    ELSE StartCurrent(get_current_track(pl, st, o), device_id, spotify_uri, o)

\* Client.start_playback after utils.validate gave v.
StartChecked(v, spotify_uri, st, o) ==
    IF v.exc # "none" THEN v
    ELSE IF Falsy(spotify_uri)
    THEN StartResume(is_track_playing(v, st, o), v.val, spotify_uri, st, o)
    ELSE StartRemote(v, v.val, spotify_uri, o)

\* Client.start_playback (decorated with utils.validate).  val is
\* "started" after the remote request and "already" when it returned early
\* because a track is playing.
start_playback(spotify_uri, p, st, o) ==
    StartChecked(validate(p, st, o), spotify_uri, st, o)

\* A pause that is requested whatever the player reports.
PauseUnchecked(c, st, o) ==
    IF c.exc # "none" THEN c
    ELSE Remote(c, "pause_playback", "pause_playback", <<c.val>>, o, "None")

\* Client.pause_playback after sp.current_playback gave c (val: the device).
PauseRead(c, st, o) ==
    IF c.exc # "none" THEN c
    ELSE IF st.playback.item # "none" /\ st.playback.is_playing
    THEN Remote(c, "pause_playback", "pause_playback", <<c.val>>, o, "None")
    ELSE Ret(c, "None")

\* Client.pause_playback after utils.validate gave v.
PauseChecked(v, st, o) ==
    IF v.exc # "none" THEN v
    ELSE PauseRead(Remote(v, "current_playback", "current_playback", <<>>, o, v.val),
                   st, o)

\* Client.pause_playback (decorated with utils.validate).
pause_playback(p, st, o) == PauseChecked(validate(p, st, o), st, o)

\* Client.skip_track: n remote next_track requests, stopping at a failure.
RECURSIVE skip_track(_, _, _)
skip_track(n, r, o) ==
    IF n <= 0 \/ r.exc # "none" THEN r
    ELSE skip_track(n - 1, Remote(r, "next_track", "next_track", <<>>, o, "None"), o)

\* --------------------------------------------------------------- catalog
\* The lookup without its try block.
is_validUnguarded(op, spotify_uri, p, o) ==
    IF ExtractRaises(spotify_uri)
    THEN Exc(p, "AttributeError", "'NoneType' object has no attribute 'startswith'")
    ELSE Remote(p, "is_valid", op, <<_extract_id_from_uri(spotify_uri)>>, o, TRUE)

\* Client.is_valid_track, is_valid_playlist, is_valid_album,
\* is_valid_artist (op names the lookup): any exception gives False.
is_valid(op, spotify_uri, p, o) ==
    IF ExtractRaises(spotify_uri) THEN Ret(p, FALSE)
    ELSE Ret(Req(p, op, <<_extract_id_from_uri(spotify_uri)>>), ~Fails(o, "is_valid"))

\* The branch of Client.get_info: the first of the four words the URI
\* contains.
InfoKind(item_uri) ==
    IF Contains(item_uri, sTrack) THEN "track"
    ELSE IF Contains(item_uri, sPlaylist) THEN "playlist"
    ELSE IF Contains(item_uri, sAlbum) THEN "album"
    ELSE IF Contains(item_uri, sArtist) THEN "artist"
    ELSE "unsupported"

\* What Client.get_info makes of a URI before its request: the id, and
\* the branch taken as the kind.
resolve(item_uri, p) ==
    Ret(p, [kind |-> InfoKind(item_uri), id |-> _extract_id_from_uri(item_uri)])

\* Client.get_info.
get_info(item_uri, p, o) ==
    IF ExtractRaises(item_uri)
    THEN Exc(p, "AttributeError", "'NoneType' object has no attribute 'startswith'")
    ELSE IF InfoKind(item_uri) = "unsupported"
    THEN Exc(p, "ValueError", "Unsupported URI type: <item_uri>")
    ELSE Remote(p, "get_info", InfoKind(item_uri),
                <<_extract_id_from_uri(item_uri)>>, o, [type |-> InfoKind(item_uri)])

\* ------------------------------------------------------------ pagination
\* A listing is a chain of pages; a page is a sequence of entries, TRUE for
\* a track and FALSE for a null entry; page k links to page k + 1 and the
\* last page's `next` is None.  The track at position i of page k is <<k, i>>.
Pages(n, size) == UNION {[1..k -> UNION {[1..l -> BOOLEAN] : l \in 0..size}] : k \in 1..n}

\* A cursor that is dropped one page early.
HasNextEarly(pages, k) == k + 1 < Len(pages)

\* results['next'] of page k.
HasNext(pages, k) == k < Len(pages)

\* The loop body of get_album_tracks reads track['uri'] of every entry of
\* page k, which raises on a null entry.
AlbumPageRaises(pages, k) == \E i \in 1..Len(pages[k]) : ~pages[k][i]

\* The track data the loop body of get_album_tracks appends for page k.
AlbumPageTracks(pages, k) == [i \in 1..Len(pages[k]) |-> <<k, i>>]

\* Every track of the pages from page k on, in page order.
RECURSIVE AllTracks(_, _)
AllTracks(pages, k) ==
    IF k > Len(pages) THEN <<>>
    ELSE AlbumPageTracks(pages, k) \o AllTracks(pages, k + 1)

\* The while loop of Client.get_album_tracks: r is the outcome of the
\* request for page k, tracks the tracks of the pages before it.
RECURSIVE AlbumLoop(_, _, _, _, _)
AlbumLoop(k, tracks, r, st, o) ==
    IF r.exc # "none" THEN r
    ELSE IF AlbumPageRaises(st.pages, k)
    THEN Exc(r, "TypeError", "'NoneType' object is not subscriptable")
    ELSE IF HasNext(st.pages, k)
    THEN AlbumLoop(k + 1, tracks \o AlbumPageTracks(st.pages, k),
                   Remote(r, "next", "next", <<k + 1>>, o, NoneV), st, o)
    ELSE Ret(r, tracks \o AlbumPageTracks(st.pages, k))

\* Client.get_album_tracks.
get_album_tracks(album_uri, p, st, o) ==
    AlbumLoop(1, <<>>,
              Remote(p, "album_tracks", "album_tracks",
                     <<_extract_id_from_uri(album_uri)>>, o, NoneV),
              st, o)

\* utils.parse_tracks: the tracks of the items of page k from item i on,
\* null items left out.
RECURSIVE parse_tracks(_, _, _)
parse_tracks(pages, k, i) ==
    IF i > Len(pages[k]) THEN <<>>
    ELSE (IF pages[k][i] THEN <<(<<k, i>>)>> ELSE <<>>) \o parse_tracks(pages, k, i + 1)

\* Client.set_username after utils.validate gave v: sp.current_user()
\* ['display_name'] is stored in Client.username.
SetName(v, o) ==
    IF v.exc # "none" THEN v
    ELSE IF Fails(o, "current_user")
    THEN Exc(Req(v, "current_user", <<>>), o.exc, o.emsg)
    ELSE [Ret(Req(v, "current_user", <<>>), "None") EXCEPT !.user = o.display]

\* Client.set_username (decorated with utils.validate).
set_username(p, st, o) == SetName(validate(p, st, o), o)

\* utils.ensure_username, the decorator of the playlist methods: fetch the
\* username when it is not known yet.
ensure_username(p, st, o) ==
    IF p.user = "None" THEN set_username(p, st, o) ELSE p

\* Client.get_playlist_tracks after utils.ensure_username gave u.
PlaylistFirstPage(u, playlist_id, st, o) ==
    IF u.exc # "none" THEN u
    ELSE Remote(u, "playlist", "playlist", <<playlist_id>>, o,
                parse_tracks(st.pages, 1, 1))

\* Client.get_playlist_tracks, the definition bound on Client (the second
\* one, which replaces the first): the items of the playlist object's first
\* page.
get_playlist_tracks(playlist_id, p, st, o) ==
    PlaylistFirstPage(ensure_username(p, st, o), playlist_id, st, o)

\* ---------------------------------------------------------------- search
\* What the probe of the local search endpoint gives, o.local =
\* [status, shape, ndocs]: status "ok" is a 2xx answer whose JSON body is
\* null, a list of ndocs documents, or an object whose "documents" holds
\* ndocs documents; the other statuses are the RequestExceptions of
\* requests.get and raise_for_status ("no_url": LOCAL_SEARCH_URL is unset
\* and requests.get(None) raises MissingSchema).
LocalStatuses == {"ok", "timeout", "connection", "http_error", "no_url"}
LocalShapes == {"null", "list", "dict"}

\* The outcome r after the request to the local endpoint.
LocalProbe(r, query, qtype, o) ==
    IF o.local.status = "no_url" THEN r
    ELSE Req(r, "local_search", <<query, qtype>>)

\* local_data after the try block: None after any RequestException.
LocalData(o) ==
    IF o.local.status # "ok" THEN [shape |-> "null", ndocs |-> 0]
    ELSE [shape |-> o.local.shape,
          ndocs |-> IF o.local.shape = "null" THEN 0 ELSE o.local.ndocs]

\* bool(local_data): None and the empty list are false; an object with a
\* "documents" key is true.
Truthy(d) == \/ d.shape = "list" /\ d.ndocs > 0
             \/ d.shape = "dict"

\* The guard without its test of the answer's type and length.
LocalBranchTruthy(d) == Truthy(d)

\* The guard of the local branch of smart_search.
LocalBranch(d) == Truthy(d) /\ d.shape = "list" /\ d.ndocs > 0

\* The fall back of smart_search to sp.search and
\* utils.parse_search_results.
OnlineSearch(query, qtype, limit, r, o) ==
    Remote(r, "search", "search", <<query, qtype, limit>>, o,
           [source |-> "remote", query |-> query, qtype |-> qtype,
            limit |-> limit, total |-> o.hits])

\* Client.smart_search.  In the local branch local_data is a list, and
\* local_data.get raises AttributeError: the statements after it never run.
smart_search(query, qtype, limit, p, o) ==
    IF LocalBranch(LocalData(o))
    THEN Exc(LocalProbe(p, query, qtype, o),
             "AttributeError", "'list' object has no attribute 'get'")
    ELSE OnlineSearch(query, qtype, limit, LocalProbe(p, query, qtype, o), o)

\* Client.search after the username is known.
SearchNamed(u, query, qtype, limit, o) ==
    IF u.exc # "none" THEN u ELSE smart_search(query, qtype, limit, u, o)

\* Client.search after utils.validate gave v.
SearchUser(v, st, o) ==
    IF v.exc # "none" THEN v
    ELSE IF v.user = "None" THEN set_username(v, st, o)
    ELSE v

\* Client.search (decorated with utils.validate).
search(query, qtype, limit, p, st, o) ==
    SearchNamed(SearchUser(validate(p, st, o), st, o), query, qtype, limit, o)

\* ----------------------------------------------------------------- queue
\* Client.add_to_queue after utils.validate gave v.
AddChecked(v, track_id, fails, o) ==
    IF v.exc # "none" THEN v
    ELSE IF fails THEN Exc(Req(v, "add_to_queue", <<track_id, v.val>>), o.exc, o.emsg)
    ELSE Ret(Req(v, "add_to_queue", <<track_id, v.val>>), "None")

\* Client.add_to_queue, the definition bound on Client (the second one,
\* decorated with utils.validate): one remote request, no retry.  fails
\* says whether this request fails.
add_to_queue(track_id, fails, p, st, o) ==
    AddChecked(validate(p, st, o), track_id, fails, o)

\* Client.get_queue after sp.queue() gave q.
QueueRead(q, st, o) ==
    IF q.exc # "none" THEN q ELSE get_current_track(q, st, o)

\* Client.get_queue after utils.validate gave v.
QueueChecked(v, st, o) ==
    IF v.exc # "none" THEN v
    ELSE QueueRead(Remote(v, "queue", "queue", <<>>, o, "queue"), st, o)

\* Client.get_queue, the definition bound on Client (the second one).
get_queue(p, st, o) == QueueChecked(validate(p, st, o), st, o)

\* The profile's country, read without a fallback.
ProfileCountry(o) == o.country

\* The market of get_artist_top_tracks: the profile's country, or 'US'
\* when the profile cannot be read or has no country.
Market(o) ==
    IF Fails(o, "current_user") \/ o.country = "missing" THEN "US" ELSE o.country

\* Client.get_artist_top_tracks after the top tracks request gave r: the
\* top tracks are the entries of the listing's first page.
TopTracks(r, st) ==
    IF r.exc # "none" THEN r
    ELSE IF AlbumPageRaises(st.pages, 1)
    THEN Exc(r, "TypeError", "'NoneType' object is not subscriptable")
    ELSE Ret(r, AlbumPageTracks(st.pages, 1))

\* Client.get_artist_top_tracks.
get_artist_top_tracks(artist_uri, p, st, o) ==
    TopTracks(Remote(Req(p, "current_user", <<>>), "artist_top_tracks",
                     "artist_top_tracks",
                     <<_extract_id_from_uri(artist_uri), Market(o)>>, o, NoneV),
              st)

\* -------------------------------------------------------------- playlists
\* Client.get_current_user_playlists.
get_current_user_playlists(p, o) ==
    Remote(p, "current_user_playlists", "current_user_playlists", <<>>, o,
           "playlists")

\* A track_ids argument: [form, n].  form "none" is a missing argument,
\* "list" a list of n ids, "json_list" a string holding the JSON of a list
\* of n ids, "json_other" a string holding JSON that is not a list (n = 0
\* when that value is false in Python, as 0 or null), and "bad_json" a
\* string that is not JSON.
TrackIdForms == {"none", "list", "json_list", "json_other", "bad_json"}

\* `not track_ids` in the client, for the value the dispatcher passes on.
NoTrackIds(ids) == ids.form = "none" \/ ids.n = 0

\* The body shared by Client.add_tracks_to_playlist and
\* Client.remove_tracks_from_playlist after utils.ensure_username gave u:
\* a failure of the remote request op is logged and not raised.
ChangeTracks(u, op, playlist_id, ids) ==
    IF u.exc # "none" THEN u
    ELSE IF Falsy(playlist_id) THEN Exc(u, "ValueError", "No playlist ID provided.")
    ELSE IF NoTrackIds(ids) THEN Exc(u, "ValueError", "No track IDs provided.")
    ELSE Ret(Req(u, op, <<playlist_id, ids>>), "None")

\* Client.add_tracks_to_playlist (decorated with utils.ensure_username).
add_tracks_to_playlist(playlist_id, ids, p, st, o) ==
    ChangeTracks(ensure_username(p, st, o), "playlist_add_items", playlist_id, ids)

\* Client.remove_tracks_from_playlist (decorated with
\* utils.ensure_username).
remove_tracks_from_playlist(playlist_id, ids, p, st, o) ==
    ChangeTracks(ensure_username(p, st, o),
                 "playlist_remove_all_occurrences_of_items", playlist_id, ids)

\* Client.change_playlist_details after utils.ensure_username gave u: a
\* failure of the remote request is logged and not raised.
ChangeDetails(u, playlist_id, name, description) ==
    IF u.exc # "none" THEN u
    ELSE IF Falsy(playlist_id) THEN Exc(u, "ValueError", "No playlist ID provided.")
    ELSE Ret(Req(u, "playlist_change_details", <<playlist_id, name, description>>),
             "None")

\* Client.change_playlist_details (decorated with utils.ensure_username).
change_playlist_details(playlist_id, name, description, p, st, o) ==
    ChangeDetails(ensure_username(p, st, o), playlist_id, name, description)

\* ------------------------------------------------------------- responses
NoData == [count |-> 0, info |-> "none", template |-> "none", tracks |-> <<>>]

\* create_error_response: one text block holding the JSON object
\* {"error": true, "message": message}.
create_error_response(message) ==
    [kind |-> "error", blocks |-> 1, error |-> TRUE, message |-> message,
     data |-> NoData]

\* [types.TextContent(type="text", text=text)] for a plain text.
TextResponse(text, data) ==
    [kind |-> "text", blocks |-> 1, error |-> FALSE, message |-> <<text>>,
     data |-> data]

\* [types.TextContent(type="text", text=json.dumps(value))].
JsonResponse(what, data) ==
    [kind |-> "json", blocks |-> 1, error |-> FALSE, message |-> <<what>>,
     data |-> data]

\* A handler that falls off its match returns None: no content block.
NoResponse ==
    [kind |-> "none", blocks |-> 0, error |-> FALSE, message |-> <<>>,
     data |-> NoData]

\* What one run of handle_call_tool gives: the response, the remote
\* requests made and Client.username afterwards (of the outcome r), the
\* class of the exception that reached the dispatcher from a client method
\* ("none" if none did), and the class of the exception that left
\* handle_call_tool.
Handled(resp, r, raised) ==
    [resp |-> resp, calls |-> r.calls, user |-> r.user, raised |-> raised,
     escaped |-> "none"]

Escaped(exc, r) ==
    [resp |-> NoResponse, calls |-> r.calls, user |-> r.user, raised |-> "none",
     escaped |-> exc]

\* The except clauses without their fixed prefix.
OuterMessageBare(exc, msg) == <<msg>>

\* The two except clauses that close handle_call_tool.
OuterMessage(exc, msg) ==
    IF exc = "SpotifyException"
    THEN <<"An error occurred with the Spotify Client: ", msg>>
    ELSE <<"Unexpected error occurred: ", msg>>

\* The end of a case whose last client call gave r: its exception is
\* caught by the closing except clauses, else resp is returned.
Reply(r, resp) ==
    IF r.exc # "none"
    THEN Handled(create_error_response(OuterMessage(r.exc, r.msg)), r, r.exc)
    ELSE Handled(resp, r, "none")

\* An exception of the handler's own code, caught by them.
OwnError(p, exc, msg) ==
    Handled(create_error_response(OuterMessage(exc, msg)), p, "none")

\* ------------------------------------------------------ Playback handler
\* The template format_playback_response picks: the second of exactly
\* three colon-separated parts of the URI, else the generic one.
PlaybackTemplate(spotify_uri) ==
    IF NumParts(spotify_uri, ":") # 3 THEN "generic"
    ELSE IF SecondPart(spotify_uri, ":") = sTrack THEN "track"
    ELSE IF SecondPart(spotify_uri, ":") = sAlbum THEN "album"
    ELSE IF SecondPart(spotify_uri, ":") = sPlaylist THEN "playlist"
    ELSE IF SecondPart(spotify_uri, ":") = sArtist THEN "artist"
    ELSE "generic"

\* format_playback_response after its get_info gave i.
Formatted(i, spotify_uri) ==
    IF i.exc # "none" THEN Reply(i, NoResponse)
    ELSE Reply(i, TextResponse("Playback started",
                               [NoData EXCEPT !.info = i.val.type,
                                              !.template = PlaybackTemplate(spotify_uri)]))

\* format_playback_response.
format_playback_response(spotify_uri, p, o) ==
    Formatted(get_info(spotify_uri, p, o), spotify_uri)

\* The guard of the track check of Playback start: a non-empty URI that
\* starts with 'spotify:track:' and has a non-empty last part.
StartChecksTrack(spotify_uri) ==
    /\ ~Falsy(spotify_uri)
    /\ StartsWith(spotify_uri, sTrackPrefix)
    /\ LastPart(spotify_uri, ":") # <<>>

\* case "start" of Playback after start_playback gave s.
Started(s, spotify_uri, o) ==
    IF s.exc # "none" THEN Reply(s, NoResponse)
    ELSE format_playback_response(spotify_uri, s, o)

\* case "start" of Playback after the track check gave v.
StartValidated(v, spotify_uri, st, o) ==
    IF ~v.val
    THEN Handled(create_error_response(
                     <<"Invalid or non-existent track URI. Please try another track.">>),
                 v, "none")
    ELSE Started(start_playback(spotify_uri, v, st, o), spotify_uri, o)

\* case "start" of Playback.
PlaybackStart(spotify_uri, p, st, o) ==
    IF StartChecksTrack(spotify_uri)
    THEN StartValidated(is_valid("track", LastPart(spotify_uri, ":"), p, o),
                        spotify_uri, st, o)
    ELSE StartValidated(Ret(p, TRUE), spotify_uri, st, o)

\* case "get" of Playback after get_current_track gave c.
PlaybackGot(c) ==
    IF c.exc = "none" /\ ~c.val.some
    THEN Reply(c, TextResponse("No track playing.", NoData))
    ELSE Reply(c, JsonResponse("curr_track", NoData))

\* case "skip" of Playback: int(num_skips) raises on a value that is not a
\* number.
PlaybackSkip(skips, p, o) ==
    IF ~skips.ok THEN OwnError(p, "ValueError", "invalid literal for int()")
    ELSE Reply(skip_track(skips.n, p, o), TextResponse("Skipped to next track.", NoData))

\* case "Playback" of handle_call_tool; a.action is "None" when the
\* argument is missing.  The match on the action has no default case.
PlaybackActions == {"get", "start", "pause", "skip"}

Playback(a, p, st, o) ==
    IF a.action = "get" THEN PlaybackGot(get_current_track(p, st, o))
    ELSE IF a.action = "start" THEN PlaybackStart(a.spotify_uri, p, st, o)
    ELSE IF a.action = "pause"
    THEN Reply(pause_playback(p, st, o), TextResponse("Playback paused.", NoData))
    ELSE IF a.action = "skip" THEN PlaybackSkip(a.skips, p, o)
    ELSE Handled(NoResponse, p, "none")

\* -------------------------------------------------------- Search handler
\* The except clause inside case "Search".
SearchCatch(r, msg, raised) ==
    Handled(create_error_response(<<"An error occurred during search: ", msg>>),
            r, raised)

\* case "Search" after Client.search gave r.  o.fmt is what the formatting
\* of the result set gives: "empty" when the entry of the requested kind is
\* missing or empty, "raises" when an item is not a mapping, else "items".
SearchFormatted(r, qtype, o) ==
    IF r.exc # "none" THEN SearchCatch(r, r.msg, r.exc)
    ELSE IF o.fmt = "empty"
    THEN Handled(create_error_response(<<"No ", qtype, "s found for your query.">>),
                 r, "none")
    ELSE IF o.fmt = "raises"
    THEN SearchCatch(r, "'str' object has no attribute 'get'", "none")
    ELSE Handled(TextResponse("Search Results", NoData), r, "none")

\* case "Search" of handle_call_tool.
Search(hasArgs, a, p, st, o) ==
    IF ~hasArgs
    THEN SearchCatch(p, "'NoneType' object has no attribute 'get'", "none")
    ELSE SearchFormatted(search(a.query, a.qtype, a.limit, p, st, o), a.qtype, o)

\* ------------------------------------------------------- GetInfo handler
\* case "GetInfo" after get_info gave i.
InfoGot(i) ==
    IF i.exc # "none" THEN Reply(i, NoResponse)
    ELSE Reply(i, JsonResponse("item_info", [NoData EXCEPT !.info = i.val.type]))

\* case "GetInfo" of handle_call_tool.
GetInfo(a, p, o) == InfoGot(get_info(a.item_uri, p, o))

\* --------------------------------------------------------- Queue handler
\* The branches of Queue add with playlist tried before track.
QueueKindPlaylistFirst(spotify_uri) ==
    IF Contains(spotify_uri, sPlaylist) THEN "playlist"
    ELSE IF Contains(spotify_uri, sTrack) THEN "track"
    ELSE IF Contains(spotify_uri, sAlbum) THEN "album"
    ELSE IF Contains(spotify_uri, sArtist) THEN "artist"
    ELSE "unsupported"

\* The branch of Queue add: the first of the four words the URI contains.
QueueKind(spotify_uri) ==
    IF Contains(spotify_uri, sTrack) THEN "track"
    ELSE IF Contains(spotify_uri, sPlaylist) THEN "playlist"
    ELSE IF Contains(spotify_uri, sAlbum) THEN "album"
    ELSE IF Contains(spotify_uri, sArtist) THEN "artist"
    ELSE "unsupported"

\* The except clause inside case "add".
QueueCatch(r) ==
    Handled(create_error_response(<<"Error adding to queue: ", r.msg>>), r, r.exc)

QueueStatus(kind) ==
    IF kind = "track" THEN "Track added to queue successfully"
    ELSE IF kind = "playlist" THEN "All n tracks from playlist added to queue successfully"
    ELSE IF kind = "album" THEN "All n tracks from album added to queue successfully"
    ELSE "Top n tracks from artist added to queue successfully"

InvalidUriMessage(kind) ==
    IF kind = "track" THEN "Invalid or non-existent track URI. Please try another track."
    ELSE IF kind = "playlist" THEN "Invalid or non-existent playlist URI."
    ELSE IF kind = "album" THEN "Invalid or non-existent album URI."
    ELSE "Invalid or non-existent artist URI."

\* The loop `for track in tracks: add_to_queue(..); added_tracks.append(..)`
\* before track i, r being the outcome so far; the add of track
\* o.addFailAt fails.  val is len(added_tracks).
RECURSIVE AddAll(_, _, _, _, _)
AddAll(tracks, i, r, st, o) ==
    IF r.exc # "none" THEN r
    ELSE IF i > Len(tracks) THEN Ret(r, Len(tracks))
    ELSE AddAll(tracks, i + 1, add_to_queue(tracks[i], o.addFailAt = i, r, st, o),
                st, o)

\* The expansion of a collection into its tracks.
Expand(kind, spotify_uri, p, st, o) ==
    IF kind = "playlist" THEN get_playlist_tracks(spotify_uri, p, st, o)
    ELSE IF kind = "album" THEN get_album_tracks(spotify_uri, p, st, o)
    ELSE get_artist_top_tracks(spotify_uri, p, st, o)

\* case "add" after the details of the URI were fetched (i); n tracks were
\* added.  The response of a track has no tracks_added.
QueueDetailed(i, kind, n) ==
    IF i.exc # "none" THEN QueueCatch(i)
    ELSE Handled(JsonResponse(QueueStatus(kind),
                              [NoData EXCEPT !.info = i.val.type,
                                             !.count = IF kind = "track" THEN 0 ELSE n]),
                 i, "none")

\* case "add" after the adds gave q.
QueueAdded(q, kind, spotify_uri, o) ==
    IF q.exc # "none" THEN QueueCatch(q)
    ELSE QueueDetailed(get_info(spotify_uri, q, o), kind, q.val)

\* case "add" after the expansion gave t.
QueueExpanded(t, kind, spotify_uri, st, o) ==
    IF t.exc # "none" THEN QueueCatch(t)
    ELSE QueueAdded(AddAll(t.val, 1, t, st, o), kind, spotify_uri, o)

\* case "add" without the check of the validation's answer.
QueueUnvalidated(v, kind, spotify_uri, st, o) ==
    IF kind = "track"
    THEN QueueExpanded(Ret(v, <<spotify_uri>>), kind, spotify_uri, st, o)
    ELSE QueueExpanded(Expand(kind, spotify_uri, v, st, o), kind, spotify_uri, st, o)

\* case "add" after the validation gave v.
QueueValidated(v, kind, spotify_uri, st, o) ==
    IF ~v.val
    THEN Handled(create_error_response(<<InvalidUriMessage(kind)>>), v, "none")
    ELSE IF kind = "track"
    THEN QueueExpanded(Ret(v, <<spotify_uri>>), kind, spotify_uri, st, o)
    ELSE QueueExpanded(Expand(kind, spotify_uri, v, st, o), kind, spotify_uri, st, o)

\* case "add" of Queue, for a non-empty URI: validate, expand, add each
\* track, fetch the details.
QueueAdd(spotify_uri, p, st, o) ==
    IF QueueKind(spotify_uri) = "unsupported"
    THEN Handled(create_error_response(
                     <<"Unsupported URI type. Please provide a track, playlist, album, or artist URI.">>),
                 p, "none")
    ELSE QueueValidated(is_valid(QueueKind(spotify_uri), spotify_uri, p, o),
                        QueueKind(spotify_uri), spotify_uri, st, o)

\* case "Queue" of handle_call_tool.
QueueActions == {"add", "get"}

Queue(a, p, st, o) ==
    IF a.action = "add"
    THEN IF Falsy(a.spotify_uri)
         THEN Handled(create_error_response(
                          <<"spotify_uri is required for the 'add' action.">>),
                      p, "none")
         ELSE QueueAdd(a.spotify_uri, p, st, o)
    ELSE IF a.action = "get"
    THEN Reply(get_queue(p, st, o), JsonResponse("queue", NoData))
    ELSE Handled(create_error_response(
                     <<"Unknown queue action: ", a.action,
                       ". Supported actions are: add and get.">>),
                 p, "none")

\* ------------------------------------------------------ Playlist handler
\* track_ids after `if isinstance(track_ids, str): json.loads(track_ids)`;
\* the caller has handled form "bad_json".
LoadedTrackIds(ids) ==
    IF ids.form = "json_list" THEN [form |-> "list", n |-> ids.n]
    ELSE IF ids.form = "json_other" THEN [form |-> "other", n |-> ids.n]
    ELSE ids

\* case "add_tracks" of Playlist.
PlaylistAdd(a, p, st, o) ==
    IF a.track_ids.form = "bad_json"
    THEN Handled(create_error_response(
                     <<"track_ids must be a list or a valid JSON array.">>), p, "none")
    ELSE Reply(add_tracks_to_playlist(a.playlist_id, LoadedTrackIds(a.track_ids),
                                      p, st, o),
               TextResponse("Tracks added to playlist.", NoData))

\* case "remove_tracks" of Playlist.
PlaylistRemove(a, p, st, o) ==
    IF a.track_ids.form = "bad_json"
    THEN Handled(create_error_response(
                     <<"track_ids must be a list or a valid JSON array.">>), p, "none")
    ELSE Reply(remove_tracks_from_playlist(a.playlist_id, LoadedTrackIds(a.track_ids),
                                           p, st, o),
               TextResponse("Tracks removed from playlist.", NoData))

\* case "get_tracks" of Playlist after get_playlist_tracks gave r.
PlaylistGotTracks(r) ==
    IF r.exc # "none" THEN Reply(r, NoResponse)
    ELSE Reply(r, JsonResponse("tracks", [NoData EXCEPT !.tracks = r.val]))

\* case "get_tracks" of Playlist.
PlaylistGetTracks(a, p, st, o) ==
    IF Falsy(a.playlist_id)
    THEN Handled(create_error_response(
                     <<"playlist_id is required for get_tracks action.">>), p, "none")
    ELSE PlaylistGotTracks(get_playlist_tracks(a.playlist_id, p, st, o))

\* case "change_details" of Playlist.
PlaylistChange(a, p, st, o) ==
    IF Falsy(a.playlist_id)
    THEN Handled(create_error_response(
                     <<"playlist_id is required for change_details action.">>),
                 p, "none")
    ELSE IF Falsy(a.name) /\ Falsy(a.description)
    THEN Handled(create_error_response(
                     <<"At least one of name, description, public, or collaborative is required.">>),
                 p, "none")
    ELSE Reply(change_playlist_details(a.playlist_id, a.name, a.description, p, st, o),
               TextResponse("Playlist details changed.", NoData))

\* case "Playlist" of handle_call_tool.
PlaylistActions == {"get", "get_tracks", "add_tracks", "remove_tracks", "change_details"}

Playlist(a, p, st, o) ==
    IF a.action = "get"
    THEN Reply(get_current_user_playlists(p, o), JsonResponse("playlists", NoData))
    ELSE IF a.action = "get_tracks" THEN PlaylistGetTracks(a, p, st, o)
    ELSE IF a.action = "add_tracks" THEN PlaylistAdd(a, p, st, o)
    ELSE IF a.action = "remove_tracks" THEN PlaylistRemove(a, p, st, o)
    ELSE IF a.action = "change_details" THEN PlaylistChange(a, p, st, o)
    ELSE Handled(create_error_response(
                     <<"Unknown playlist action: ", a.action,
                       ". Supported actions are: get, get_tracks, add_tracks, remove_tracks, change_details.">>),
                 p, "none")

\* ------------------------------------------------------------ dispatcher
\* handle_call_tool: the assert on the name's first seven characters stands
\* before the try block; the match on the rest of the name is inside it.
\* arguments.get raises on a missing argument bag before any client call
\* (inside the inner try of case "Search").  p is the outcome before any
\* request, with the username known so far.
handle_call_tool(name, hasArgs, a, p, st, o) ==
    IF Prefix(name, 7) # cSpotify THEN Escaped("AssertionError", p)
    ELSE IF Suffix(name, 7) = cSearch THEN Search(hasArgs, a, p, st, o)
    ELSE IF Suffix(name, 7) \in {cPlayback, cQueue, cGetInfo, cPlaylist} /\ ~hasArgs
    THEN OwnError(p, "AttributeError", "'NoneType' object has no attribute 'get'")
    ELSE IF Suffix(name, 7) = cPlayback THEN Playback(a, p, st, o)
    ELSE IF Suffix(name, 7) = cQueue THEN Queue(a, p, st, o)
    ELSE IF Suffix(name, 7) = cGetInfo THEN GetInfo(a, p, o)
    ELSE IF Suffix(name, 7) = cPlaylist THEN Playlist(a, p, st, o)
    ELSE Handled(create_error_response(<<"Unknown tool: ", "<name>">>), p, "none")

\* ------------------------------------------------------------- the server
VARIABLES
    phase,      \* "idle": waiting for a tool call; "done": a call has run
    request,    \* the tool call last received: [name, hasArgs, args]
    env,        \* what the remote service and the local endpoint did in it,
                \* and the remote player and Client.username as the call
                \* found them
    last,       \* what handle_call_tool gave for it
    username,   \* Client.username, "None" until set
    playback,   \* the remote player: [item, is_playing]
    run,        \* one run of get_album_tracks, request by request
    probe,      \* one client method applied to drawn inputs
    profileFetches, \* how many searches have read the profile so far
    loop        \* the event loop: the tool calls accepted and the requests
                \* they have made, in the order they went out

vars ==
    <<phase, request, env, last, username, playback, run, probe, profileFetches, loop>>

\* URIs a caller may pass.
uTrack == sTrackPrefix \o <<"A">>
uTrackNoId == sTrackPrefix
uAlbum == sSpotify \o <<":">> \o sAlbum \o <<":", "B">>
uPlaylist == sSpotify \o <<":">> \o sPlaylist \o <<":", "C">>
uArtist == sSpotify \o <<":">> \o sArtist \o <<":", "D">>
uUser == sSpotify \o <<":", "u", "s", "e", "r", ":", "E">>
wTrack == sWebHost \o <<"/">> \o sTrack \o <<"/", "A">>
wAlbum == sWebHost \o <<"/">> \o sAlbum \o <<"/", "B">>
bareId == <<"A">>
\* A playlist URI of the older form spotify:user:<user>:playlist:<id>.
uUserPlaylist == uUser \o <<":">> \o sPlaylist \o <<":", "C">>
\* A playlist whose id holds the word track.
uPlaylistOddId == sSpotify \o <<":">> \o sPlaylist \o <<":", "X">> \o sTrack

\* Device lists the remote service may report.
Device(id, active) == [id |-> id, is_active |-> active]
DeviceLists ==
    {<<>>, <<Device("d1", FALSE)>>, <<Device("d1", TRUE)>>}

\* The listing of one page with one track.
OneTrack == <<(<<TRUE>>)>>

\* Listings without null entries, of at most n pages.
TrackPages(n, size) == {p \in Pages(n, size) : \A k \in 1..Len(p) : ~AlbumPageRaises(p, k)}

\* The exceptions a failing remote request raises: class and str(e).
Faults == {[exc |-> "SpotifyException", emsg |-> "http status: 404"],
           [exc |-> "Exception", emsg |-> ""]}

\* At most MaxFaults failing places among sites.
BadSets(sites) == {b \in SUBSET sites : Cardinality(b) <= MaxFaults}

NoArgs ==
    [action |-> "None", spotify_uri |-> NoneV, skips |-> [ok |-> TRUE, n |-> 1],
     query |-> "", qtype |-> "track", limit |-> 1, item_uri |-> NoneV,
     playlist_id |-> NoneV, track_ids |-> [form |-> "none", n |-> 0],
     name |-> NoneV, description |-> NoneV]

CalmEnv ==
    [bad |-> {}, exc |-> "Exception", emsg |-> "boom", addFailAt |-> 0,
     local |-> [status |-> "no_url", shape |-> "null", ndocs |-> 0],
     fmt |-> "items", display |-> "me", country |-> "missing", hits |-> 0,
     devices |-> <<Device("d1", TRUE)>>, pages |-> <<(<<>>)>>,
     player |-> [item |-> "none", is_playing |-> FALSE], user |-> "None"]

\* The environments of a tool call whose failing places are among sites.
Envs(sites) ==
    {[CalmEnv EXCEPT !.bad = b, !.exc = f.exc, !.emsg = f.emsg, !.devices = d] :
        b \in BadSets(sites) \ {{}}, f \in Faults, d \in DeviceLists}
    \cup {[CalmEnv EXCEPT !.devices = d] : d \in DeviceLists}

NoRequest == [name |-> <<>>, hasArgs |-> FALSE, args |-> NoArgs]

Idle == [resp |-> NoResponse, calls |-> <<>>, user |-> "None", raised |-> "none",
         escaped |-> "none"]

NoRun == [pc |-> "off", pages |-> <<(<<>>)>>, results |-> 0, tracks |-> <<>>,
          fetches |-> 0, inflight |-> 0]

NoProbe == [method |-> "none"]
NoLoop == [tasks |-> <<>>, wire |-> <<>>, pages |-> <<(<<>>)>>]

PlaybackStates ==
    {[item |-> "none", is_playing |-> FALSE],
     [item |-> "track", is_playing |-> FALSE],
     [item |-> "track", is_playing |-> TRUE],
     [item |-> "episode", is_playing |-> TRUE]}

Init ==
    /\ phase = "idle"
    /\ request = NoRequest
    /\ env = CalmEnv
    /\ last = Idle
    /\ username = "None"
    /\ playback \in PlaybackStates
    /\ run = NoRun
    /\ probe = NoProbe
    /\ profileFetches = 0
    /\ loop = NoLoop

\* The remote player after the requests of a call: a start request that
\* succeeded leaves a track playing, a pause request leaves it paused.
PlayerAfter(h, o) ==
    IF \E i \in 1..Len(h.calls) : h.calls[i].op = "start_playback"
       /\ ~Fails(o, "start_playback")
    THEN [item |-> "track", is_playing |-> TRUE]
    ELSE IF \E i \in 1..Len(h.calls) : h.calls[i].op = "pause_playback"
            /\ ~Fails(o, "pause_playback")
    THEN [playback EXCEPT !.is_playing = FALSE]
    ELSE playback

\* 1 when the call was a search whose set_username read the profile.
ProfileRead(name, h, o) ==
    IF /\ name = cSpotify \o cSearch
       /\ ~Fails(o, "current_user")
       /\ \E i \in 1..Len(h.calls) : h.calls[i].op = "current_user"
    THEN 1 ELSE 0

\* The transport hands one tool call to handle_call_tool, which runs to its
\* end (it is a coroutine without an await); the client and the remote
\* player are left as the call left them.
Handle(name, hasArgs, a, o) ==
    /\ phase = "idle"
    /\ phase' = "done"
    /\ request' = [name |-> name, hasArgs |-> hasArgs, args |-> a]
    /\ env' = [o EXCEPT !.player = playback, !.user = username]
    /\ last' = handle_call_tool(name, hasArgs, a, Begin(username),
                                [playback |-> playback, devices |-> o.devices,
                                 pages |-> o.pages], o)
    /\ username' = last'.user
    /\ playback' = PlayerAfter(last', o)
    /\ profileFetches' = profileFetches + ProfileRead(name, last', o)
    /\ UNCHANGED <<run, probe, loop>>

\* The tool calls the model draws.  An action is a recognized one, "None"
\* (the argument is missing) or "shuffle" (not an action of any tool).  The
\* places whose requests may fail are those the call can reach.
StartUris == {NoneV, <<>>, uTrack, uTrackNoId, uAlbum, uPlaylist, uArtist,
              uUser, wTrack, bareId, uUserPlaylist}
QueueUris == {NoneV, <<>>, uTrack, uAlbum, uPlaylist, uArtist, uUser, wTrack, wAlbum,
              uPlaylistOddId}
InfoUris == {NoneV, uTrack, uAlbum, uPlaylist, uArtist, uUser, wTrack, bareId}
ValidateSites == {"auth_refresh", "devices"}

PlaybackArgs ==
    {[NoArgs EXCEPT !.action = x] : x \in {"get", "pause", "None", "shuffle"}}
    \cup {[NoArgs EXCEPT !.action = "start", !.spotify_uri = u] : u \in StartUris}
    \cup {[NoArgs EXCEPT !.action = "skip", !.skips = [ok |-> k, n |-> n]] :
             k \in BOOLEAN, n \in 0..MaxSkips}

PlaybackSites(a) ==
    IF a.action = "get" THEN {"current_user_playing_track"}
    ELSE IF a.action = "start"
    THEN ValidateSites \cup {"is_valid", "current_user_playing_track",
                             "start_playback", "get_info"}
    ELSE IF a.action = "pause"
    THEN ValidateSites \cup {"current_playback", "pause_playback"}
    ELSE IF a.action = "skip" THEN {"next_track"}
    ELSE {}

\* A call of the tool SpotifyPlayback.
CallPlayback ==
    /\ phase = "idle"
    /\ \E a \in PlaybackArgs : \E o \in Envs(PlaybackSites(a)) :
           Handle(cSpotify \o cPlayback, TRUE, a, o)

SearchSites == ValidateSites \cup {"current_user", "search"}

LocalAnswers ==
    {[status |-> s, shape |-> "null", ndocs |-> 0] : s \in LocalStatuses}
    \cup {[status |-> "ok", shape |-> f, ndocs |-> n] :
             f \in {"list", "dict"}, n \in 0..MaxDocs}

\* The environments of a search: failing requests with no local endpoint,
\* or no failing request and any answer of the local endpoint.
SearchEnvs ==
    {[o EXCEPT !.fmt = fmt, !.display = display] :
        o \in Envs(SearchSites), fmt \in {"items", "empty", "raises"},
        display \in {"me", "None"}}
    \cup {[CalmEnv EXCEPT !.local = loc, !.fmt = fmt, !.display = display] :
             loc \in LocalAnswers, fmt \in {"items", "empty", "raises"},
             display \in {"me", "None"}}

\* A call of the tool SpotifySearch.
CallSearch ==
    /\ phase = "idle"
    /\ profileFetches < MaxFetches
    /\ \E t \in {"track", "playlist"}, l \in 1..MaxLimit, o \in SearchEnvs :
           Handle(cSpotify \o cSearch, TRUE,
                  [NoArgs EXCEPT !.query = "x", !.qtype = t, !.limit = l], o)

QueueArgs ==
    {[NoArgs EXCEPT !.action = x] : x \in {"get", "None", "shuffle"}}
    \cup {[NoArgs EXCEPT !.action = "add", !.spotify_uri = u] : u \in QueueUris}

QueueSites(a) ==
    IF a.action = "get"
    THEN ValidateSites \cup {"queue", "current_user_playing_track"}
    ELSE IF a.action # "add" \/ Falsy(a.spotify_uri) THEN {}
    ELSE LET kind == QueueKind(a.spotify_uri) IN
         IF kind = "unsupported" THEN {}
         ELSE ValidateSites \cup {"is_valid", "get_info"}
              \cup (IF kind = "playlist" THEN {"current_user", "playlist"}
                    ELSE IF kind = "album" THEN {"album_tracks", "next"}
                    ELSE IF kind = "artist" THEN {"current_user", "artist_top_tracks"}
                    ELSE {})

\* The listings a call of this kind may meet, and the add that fails.
QueuePages(a) ==
    IF a.action = "add" /\ ~Falsy(a.spotify_uri)
       /\ QueueKind(a.spotify_uri) \in {"playlist", "album", "artist"}
    THEN TrackPages(MaxCallPages, MaxPageSize) ELSE {CalmEnv.pages}

QueueFailAt(a, pages) ==
    IF a.action # "add" \/ Falsy(a.spotify_uri) THEN {0}
    ELSE IF QueueKind(a.spotify_uri) = "track" THEN 0..1
    ELSE 0..Len(AllTracks(pages, 1))

\* The environments of a queue call: failing requests on a listing of one
\* track, or no failing request but one add, on any listing.
QueueEnvs(a) ==
    {[o EXCEPT !.pages = OneTrack] : o \in Envs(QueueSites(a))}
    \cup UNION {{[CalmEnv EXCEPT !.devices = d, !.pages = pages, !.addFailAt = k] :
                    d \in DeviceLists, k \in QueueFailAt(a, pages)} :
                pages \in QueuePages(a)}

\* A call of the tool SpotifyQueue.
CallQueue ==
    /\ phase = "idle"
    /\ \E a \in QueueArgs : \E o \in QueueEnvs(a) :
           Handle(cSpotify \o cQueue, TRUE, a, o)

\* A call of the tool SpotifyGetInfo.
CallGetInfo ==
    /\ phase = "idle"
    /\ \E u \in InfoUris, o \in Envs({"get_info"}) :
           Handle(cSpotify \o cGetInfo, TRUE, [NoArgs EXCEPT !.item_uri = u], o)

PlaylistArgs ==
    {[NoArgs EXCEPT !.action = x, !.playlist_id = id] :
        x \in {"get", "get_tracks", "None", "shuffle"}, id \in {NoneV, <<"C">>}}
    \cup {[NoArgs EXCEPT !.action = x, !.playlist_id = id,
                         !.track_ids = [form |-> f, n |-> n]] :
             x \in {"add_tracks", "remove_tracks"}, id \in {NoneV, <<"C">>},
             f \in TrackIdForms, n \in 0..1}
    \cup {[NoArgs EXCEPT !.action = "change_details", !.playlist_id = id,
                         !.name = n, !.description = d] :
             id \in {NoneV, <<"C">>}, n \in {NoneV, <<"n">>}, d \in {NoneV, <<"d">>}}

PlaylistSites(a) ==
    IF a.action = "get" THEN {"current_user_playlists"}
    ELSE IF a.action = "get_tracks" THEN ValidateSites \cup {"current_user", "playlist"}
    ELSE IF a.action = "add_tracks"
    THEN ValidateSites \cup {"current_user", "playlist_add_items"}
    ELSE IF a.action = "remove_tracks"
    THEN ValidateSites \cup {"current_user", "playlist_remove_all_occurrences_of_items"}
    ELSE IF a.action = "change_details"
    THEN ValidateSites \cup {"current_user", "playlist_change_details"}
    ELSE {}

PlaylistPages(a) ==
    IF a.action = "get_tracks" THEN TrackPages(MaxCallPages, MaxPageSize)
    ELSE {CalmEnv.pages}

\* The environments of a playlist call: failing requests on a listing of
\* one track, or no failing request on any listing.
PlaylistEnvs(a) ==
    {[o EXCEPT !.pages = OneTrack, !.display = display] :
        o \in Envs(PlaylistSites(a)), display \in {"me", "None"}}
    \cup {[CalmEnv EXCEPT !.pages = pages] : pages \in PlaylistPages(a)}

\* A call of the tool SpotifyPlaylist.
CallPlaylist ==
    /\ phase = "idle"
    /\ \E a \in PlaylistArgs : \E o \in PlaylistEnvs(a) :
           Handle(cSpotify \o cPlaylist, TRUE, a, o)

\* A call of a tool with no argument bag.
ToolNames == {cSpotify \o t : t \in {cPlayback, cSearch, cQueue, cGetInfo, cPlaylist}}

CallNoArguments ==
    /\ phase = "idle"
    /\ \E name \in ToolNames : Handle(name, FALSE, NoArgs, CalmEnv)

\* Names that are not a tool: the prefix with an unknown or empty rest, a
\* tool's name without the prefix, a name shorter than the prefix, and the
\* prefix in lower case.
UnknownNames ==
    {cSpotify \o <<"M", "i", "x">>, cSpotify, cPlayback, <<"S", "p", "o", "t">>,
     <<>>, sSpotify \o cPlayback, cSpotify \o <<"p", "l", "a", "y", "b", "a", "c", "k">>}

\* A call of a tool the server does not have.
CallUnknown ==
    /\ phase = "idle"
    /\ \E name \in UnknownNames, hasArgs \in BOOLEAN :
           Handle(name, hasArgs, NoArgs, CalmEnv)

\* The response goes back to the transport, which takes the next call.
Respond ==
    /\ phase = "done"
    /\ phase' = "idle"
    /\ request' = NoRequest
    /\ env' = CalmEnv
    /\ last' = Idle
    /\ UNCHANGED <<username, playback, run, probe, profileFetches, loop>>

Next ==
    \/ CallPlayback
    \/ CallSearch
    \/ CallQueue
    \/ CallGetInfo
    \/ CallPlaylist
    \/ CallNoArguments
    \/ CallUnknown
    \/ Respond

Spec == Init /\ [][Next]_vars

TypeOK == phase \in {"idle", "done"}

\* ------------------------------------------------- the client's methods
\* One method of Client applied to drawn inputs.  probe holds the inputs,
\* the method applied ("none" before) and its outcome; the username is
\* known, so that utils.ensure_username makes no request of its own.
ServerIdle ==
    /\ phase = "idle"
    /\ request = NoRequest
    /\ env = CalmEnv
    /\ last = Idle
    /\ username = "None"
    /\ playback = [item |-> "none", is_playing |-> FALSE]
    /\ profileFetches = 0
    /\ loop = NoLoop

\* The inputs of a search: the arguments, what the local endpoint answers
\* and whether the remote search fails.
SearchInputs ==
    {[method |-> "none", kind |-> "search", query |-> "x", qtype |-> t,
      limit |-> l, out |-> Begin("me"),
      o |-> [CalmEnv EXCEPT !.local = loc, !.bad = b, !.hits = h]] :
        t \in {"track", "playlist"}, l \in 1..MaxLimit, loc \in LocalAnswers,
        b \in {{}, {"search"}}, h \in 0..MaxLimit}

\* The inputs of a listing: its chain of pages and the request that fails.
ListingInputs ==
    {[method |-> "none", kind |-> "listing", query |-> "x", qtype |-> "track",
      limit |-> 1, out |-> Begin("me"),
      o |-> [CalmEnv EXCEPT !.pages = pages, !.bad = b]] :
        pages \in Pages(MaxPages, MaxPageSize),
        b \in {{}, {"playlist"}, {"album_tracks"}, {"next"}}}

ProbeState(o) == [playback |-> playback, devices |-> o.devices, pages |-> o.pages]

\* The inputs of a method that takes a URI: the URI (None for a missing
\* one), the kind of lookup, and whether the lookup fails and how.
ProbeUris ==
    {NoneV, <<>>, uTrack, uTrackNoId, uAlbum, uPlaylist, uArtist, uUser, wTrack,
     wAlbum, bareId}

UriInputs ==
    {[method |-> "none", kind |-> "uri", uri |-> u, op |-> op, out |-> Begin("me"),
      o |-> [CalmEnv EXCEPT !.bad = b, !.exc = f.exc, !.emsg = f.emsg]] :
        u \in ProbeUris, op \in {"track", "playlist", "album", "artist"},
        b \in {{}, {"is_valid"}}, f \in Faults}

\* Device lists of up to MaxDevices devices, any of them flagged active.
DeviceName(i) == <<"d1", "d2", "d3", "d4", "d5">>[i]

DeviceListings ==
    UNION {{[i \in 1..n |-> Device(DeviceName(i), f[i])] : f \in [1..n -> BOOLEAN]} :
               n \in 0..MaxDevices}

\* The inputs of a method that looks at the devices: the listing, whether
\* the add-to-queue request fails, and the failing places.
DeviceInputs ==
    {[method |-> "none", kind |-> "devices", track_id |-> "A", fails |-> fl,
      out |-> Begin("me"),
      o |-> [CalmEnv EXCEPT !.devices = d, !.bad = b, !.exc = "SpotifyException",
                            !.emsg = "http status: 404"]] :
        d \in DeviceListings, fl \in BOOLEAN, b \in {{}, {"devices"}}}

\* A string of two segments.
uTwoParts == sSpotify \o <<":", "A">>

\* The strings handed to the resolver.
ResolveInputs ==
    {[method |-> "none", kind |-> "resolve", uri |-> u, out |-> Begin("me"),
      o |-> CalmEnv] :
        u \in {uTrack, uAlbum, uPlaylist, uArtist, uPlaylistOddId, uTwoParts, wTrack,
               wAlbum, bareId, <<"x", "y">>}}

\* The inputs of get_artist_top_tracks: the profile's country, the top
\* tracks, and the requests that fail.
ArtistInputs ==
    {[method |-> "none", kind |-> "artist", uri |-> uArtist, out |-> Begin("me"),
      o |-> [CalmEnv EXCEPT !.country = c, !.pages = pages, !.bad = b,
                            !.exc = f.exc, !.emsg = f.emsg]] :
        c \in {"missing", "DE"}, pages \in Pages(1, MaxPageSize),
        b \in SUBSET {"current_user", "artist_top_tracks"}, f \in Faults}

InitClient ==
    /\ ServerIdle
    /\ run = NoRun
    /\ probe \in SearchInputs \cup ListingInputs \cup UriInputs \cup DeviceInputs
                 \cup ResolveInputs \cup ArtistInputs

ProbeSmartSearch ==
    /\ probe.method = "none"
    /\ probe.kind = "search"
    /\ probe' = [probe EXCEPT
                    !.method = "smart_search",
                    !.out = smart_search(probe.query, probe.qtype, probe.limit,
                                         Begin("me"), probe.o)]
    /\ UNCHANGED <<phase, request, env, last, username, playback, run,
                   profileFetches, loop>>

ProbePlaylistTracks ==
    /\ probe.method = "none"
    /\ probe.kind = "listing"
    /\ probe' = [probe EXCEPT
                    !.method = "get_playlist_tracks",
                    !.out = get_playlist_tracks(<<"C">>, Begin("me"),
                                                ProbeState(probe.o), probe.o)]
    /\ UNCHANGED <<phase, request, env, last, username, playback, run,
                   profileFetches, loop>>

ProbeAlbumTracks ==
    /\ probe.method = "none"
    /\ probe.kind = "listing"
    /\ probe' = [probe EXCEPT
                    !.method = "get_album_tracks",
                    !.out = get_album_tracks(uAlbum, Begin("me"),
                                             ProbeState(probe.o), probe.o)]
    /\ UNCHANGED <<phase, request, env, last, username, playback, run,
                   profileFetches, loop>>

ProbeIsValid ==
    /\ probe.method = "none"
    /\ probe.kind = "uri"
    /\ probe' = [probe EXCEPT
                    !.method = "is_valid",
                    !.out = is_valid(probe.op, probe.uri, Begin("me"), probe.o)]
    /\ UNCHANGED <<phase, request, env, last, username, playback, run,
                   profileFetches, loop>>

ProbeAddToQueue ==
    /\ probe.method = "none"
    /\ probe.kind = "devices"
    /\ probe' = [probe EXCEPT
                    !.method = "add_to_queue",
                    !.out = add_to_queue(probe.track_id, probe.fails, Begin("me"),
                                         ProbeState(probe.o), probe.o)]
    /\ UNCHANGED <<phase, request, env, last, username, playback, run,
                   profileFetches, loop>>

ProbeCandidateDevice ==
    /\ probe.method = "none"
    /\ probe.kind = "devices"
    /\ ~probe.fails
    /\ probe' = [probe EXCEPT
                    !.method = "_get_candidate_device",
                    !.out = ValidateCandidate(get_devices(Begin("me"),
                                                          ProbeState(probe.o),
                                                          probe.o))]
    /\ UNCHANGED <<phase, request, env, last, username, playback, run,
                   profileFetches, loop>>

ProbeIsActiveDevice ==
    /\ probe.method = "none"
    /\ probe.kind = "devices"
    /\ ~probe.fails
    /\ probe' = [probe EXCEPT
                    !.method = "is_active_device",
                    !.out = ActiveChecked(get_devices(Begin("me"),
                                                      ProbeState(probe.o), probe.o))]
    /\ UNCHANGED <<phase, request, env, last, username, playback, run,
                   profileFetches, loop>>

ProbeResolve ==
    /\ probe.method = "none"
    /\ probe.kind = "resolve"
    /\ probe' = [probe EXCEPT !.method = "resolve",
                              !.out = resolve(probe.uri, Begin("me"))]
    /\ UNCHANGED <<phase, request, env, last, username, playback, run,
                   profileFetches, loop>>

ProbeArtistTopTracks ==
    /\ probe.method = "none"
    /\ probe.kind = "artist"
    /\ probe' = [probe EXCEPT
                    !.method = "get_artist_top_tracks",
                    !.out = get_artist_top_tracks(probe.uri, Begin("me"),
                                                  ProbeState(probe.o), probe.o)]
    /\ UNCHANGED <<phase, request, env, last, username, playback, run,
                   profileFetches, loop>>

NextClient ==
    \/ ProbeSmartSearch
    \/ ProbePlaylistTracks
    \/ ProbeAlbumTracks
    \/ ProbeIsValid
    \/ ProbeAddToQueue
    \/ ProbeCandidateDevice
    \/ ProbeIsActiveDevice
    \/ ProbeResolve
    \/ ProbeArtistTopTracks

SpecClient == InitClient /\ [][NextClient]_vars

\* ------------------------------------------- get_album_tracks, by request
\* One run of Client.get_album_tracks, request by request.  run.results is
\* the number of the page `results` holds (0: none yet, or None at the end),
\* run.fetches counts the page requests sent and run.inflight those sent and
\* not yet answered.
AlbumChains ==
    {p \in Pages(MaxPages, MaxPageSize) :
        Cardinality({<<k, i>> \in (1..Len(p)) \X (1..MaxPageSize) :
                        i <= Len(p[k]) /\ ~p[k][i]}) <= 1}

InitAlbum ==
    /\ ServerIdle
    /\ probe = NoProbe
    /\ run \in {[NoRun EXCEPT !.pc = "call", !.pages = p] : p \in AlbumChains}

\* results = self.sp.album_tracks(album_id): the request is sent.
AlbumRequestFirst ==
    /\ run.pc = "call"
    /\ run' = [run EXCEPT !.pc = "wait", !.fetches = @ + 1, !.inflight = @ + 1]
    /\ UNCHANGED <<phase, request, env, last, username, playback, probe,
                   profileFetches, loop>>

\* The request sent is answered with the next page of the chain.
AlbumReceive ==
    /\ run.pc = "wait"
    /\ run' = [run EXCEPT !.pc = "loop", !.results = @ + 1, !.inflight = @ - 1]
    /\ UNCHANGED <<phase, request, env, last, username, playback, probe,
                   profileFetches, loop>>

\* The request sent fails: its exception leaves get_album_tracks.
AlbumRequestFails ==
    /\ run.pc = "wait"
    /\ run' = [run EXCEPT !.pc = "raised", !.inflight = @ - 1]
    /\ UNCHANGED <<phase, request, env, last, username, playback, probe,
                   profileFetches, loop>>

\* The for loop over results['items'].
AlbumAppend ==
    /\ run.pc = "loop"
    /\ run' = IF AlbumPageRaises(run.pages, run.results)
              THEN [run EXCEPT !.pc = "raised"]
              ELSE [run EXCEPT !.pc = "next",
                               !.tracks = @ \o AlbumPageTracks(run.pages, run.results)]
    /\ UNCHANGED <<phase, request, env, last, username, playback, probe,
                   profileFetches, loop>>

\* if results['next']: results = self.sp.next(results): the request is sent.
AlbumRequestNext ==
    /\ run.pc = "next"
    /\ HasNext(run.pages, run.results)
    /\ run' = [run EXCEPT !.pc = "wait", !.fetches = @ + 1, !.inflight = @ + 1]
    /\ UNCHANGED <<phase, request, env, last, username, playback, probe,
                   profileFetches, loop>>

\* else: results = None; the while loop ends and tracks is returned.
AlbumReturn ==
    /\ run.pc = "next"
    /\ ~HasNext(run.pages, run.results)
    /\ run' = [run EXCEPT !.pc = "done", !.results = 0]
    /\ UNCHANGED <<phase, request, env, last, username, playback, probe,
                   profileFetches, loop>>

NextAlbum ==
    \/ AlbumRequestFirst
    \/ AlbumReceive
    \/ AlbumRequestFails
    \/ AlbumAppend
    \/ AlbumRequestNext
    \/ AlbumReturn

\* A running method goes on, and a request sent is answered or fails (the
\* HTTP client has a timeout).
SpecAlbum == InitAlbum /\ [][NextAlbum]_vars /\ WF_vars(NextAlbum)

\* -------------------------------------------------------- the event loop
\* handle_call_tool is a coroutine on the event loop that server.run
\* drives.  The transport may accept a tool call while another one waits
\* to run; the loop resumes one coroutine at a time, and a coroutine gives
\* the loop back only at an await.  loop.tasks holds the calls accepted,
\* each with its state ("pending", "suspended" at an await, "done"), its
\* outcome once started and how many of its requests have gone out;
\* loop.wire holds the requests and the writes of Client.username in the
\* order they happened, each with the index of its task; loop.pages is
\* the listing the remote service holds.

\* A handler that awaits after each of its requests.
AwaitAfterEachRequest(calls) == 1..(Len(calls) - 1)

\* The positions in a handler's sequence of requests after which it
\* awaits: the body of handle_call_tool holds no await, and every client
\* method is a blocking call.
AwaitPoints(calls) == {}

\* Where a handler resumed at position pos stops next.
NextStop(calls, pos) ==
    IF \E k \in AwaitPoints(calls) : k > pos
    THEN CHOOSE k \in AwaitPoints(calls) :
             k > pos /\ \A j \in AwaitPoints(calls) : j > pos => k <= j
    ELSE Len(calls)

\* The tool calls the transport delivers.
LoopCalls ==
    {[name |-> cSpotify \o cQueue,
      args |-> [NoArgs EXCEPT !.action = "add", !.spotify_uri = u]] :
         u \in {uTrack, uAlbum}}
    \cup {[name |-> cSpotify \o cSearch, args |-> [NoArgs EXCEPT !.query = "x"]],
          [name |-> cSpotify \o cPlaylist,
           args |-> [NoArgs EXCEPT !.action = "get_tracks", !.playlist_id = <<"C">>]],
          [name |-> cSpotify \o cPlayback, args |-> [NoArgs EXCEPT !.action = "pause"]]}

LoopEnv(user, pages) ==
    [CalmEnv EXCEPT !.pages = pages, !.player = playback, !.user = user]

\* The outcome of a task: computed when the coroutine starts.
TaskOutcome(task, user, pages) ==
    IF task.state = "pending"
    THEN handle_call_tool(task.name, TRUE, task.args, Begin(user),
                          [playback |-> playback, devices |-> CalmEnv.devices,
                           pages |-> pages],
                          LoopEnv(user, pages))
    ELSE task.out

\* The requests from + 1 .. to of task t, as they go out.
Sent(t, calls, from, to) ==
    [i \in 1..(to - from) |-> [task |-> t, op |-> calls[from + i].op]]

\* The write of Client.username a finished task has made.
Written(t, out, pos, user) ==
    IF NextStop(out.calls, pos) = Len(out.calls) /\ out.user # user
    THEN <<[task |-> t, op |-> "username"]>>
    ELSE <<>>

\* The loop after task t, whose outcome is out, ran to its next stop.
Resumed(l, t, out, user) ==
    [l EXCEPT
       !.tasks[t] = [name |-> l.tasks[t].name, args |-> l.tasks[t].args,
                     out |-> out, pos |-> NextStop(out.calls, l.tasks[t].pos),
                     state |-> IF NextStop(out.calls, l.tasks[t].pos) = Len(out.calls)
                               THEN "done" ELSE "suspended"],
       !.wire = @ \o Sent(t, out.calls, l.tasks[t].pos,
                          NextStop(out.calls, l.tasks[t].pos))
                  \o Written(t, out, l.tasks[t].pos, user)]

InitLoop ==
    /\ phase = "idle"
    /\ request = NoRequest
    /\ env = CalmEnv
    /\ last = Idle
    /\ username = "None"
    /\ playback \in PlaybackStates
    /\ run = NoRun
    /\ probe = NoProbe
    /\ profileFetches = 0
    /\ loop \in {[NoLoop EXCEPT !.pages = p] : p \in TrackPages(1, MaxPageSize)}

\* The transport accepts a tool call and makes a task of it.
AcceptCall ==
    /\ Len(loop.tasks) < MaxTasks
    /\ \E c \in LoopCalls :
           loop' = [loop EXCEPT
                      !.tasks = Append(@, [name |-> c.name, args |-> c.args,
                                           out |-> Idle, pos |-> 0,
                                           state |-> "pending"])]
    /\ UNCHANGED <<phase, request, env, last, username, playback, run, probe,
                   profileFetches>>

\* The event loop resumes a task, which runs to its next await or to its
\* end; at its end the client and the remote player are as it left them.
RunTask ==
    \E t \in 1..Len(loop.tasks) :
        /\ loop.tasks[t].state # "done"
        /\ loop' = Resumed(loop, t, TaskOutcome(loop.tasks[t], username, loop.pages),
                           username)
        /\ username' = IF loop'.tasks[t].state = "done"
                       THEN loop'.tasks[t].out.user ELSE username
        /\ playback' = IF loop'.tasks[t].state = "done"
                       THEN PlayerAfter(loop'.tasks[t].out, CalmEnv) ELSE playback
        /\ UNCHANGED <<phase, request, env, last, run, probe, profileFetches>>

NextLoop ==
    \/ AcceptCall
    \/ RunTask

SpecLoop == InitLoop /\ [][NextLoop]_vars


\* ------------------------------------------------------------ properties
NonEmptyText(message) == \E i \in 1..Len(message) : message[i] # ""

HasCall(calls, op) == \E i \in 1..Len(calls) : calls[i].op = op

ErrorResponse(resp) ==
    resp.kind = "error" /\ resp.blocks = 1 /\ resp.error /\ NonEmptyText(resp.message)

\* C1: a call of one of the five tools, with any argument bag or with none,
\* in which a client operation raises an exception (or the missing bag
\* does) returns exactly one text block {error: true, message: <non-empty>},
\* and no exception leaves handle_call_tool.
C1_ErrorShape ==
    (phase = "done" /\ request.name \in ToolNames
       /\ (last.raised # "none" \/ ~request.hasArgs))
    => (last.escaped = "none" /\ ErrorResponse(last.resp))

\* A client exception with an empty str(e) reached the closing except
\* clauses and came back as an error response.
C1_Witness ==
    /\ phase = "done"
    /\ request.name = cSpotify \o cPlayback
    /\ last.raised = "Exception"
    /\ env.emsg = ""
    /\ ErrorResponse(last.resp)

\* C2: a call with a name that is not one of the tools, with or without the
\* 'Spotify' prefix, returns the structured error response and raises
\* nothing.
C2_UnknownTool ==
    (phase = "done" /\ request.name \notin ToolNames)
    => (last.escaped = "none" /\ ErrorResponse(last.resp))

\* C3: a call of Playback, Queue or Playlist whose action is not one the
\* tool supports, or is missing, returns a structured error response and
\* makes no remote request.
C3_UnknownAction ==
    (phase = "done" /\ request.hasArgs
       /\ \/ request.name = cSpotify \o cPlayback
             /\ request.args.action \notin PlaybackActions
          \/ request.name = cSpotify \o cQueue
             /\ request.args.action \notin QueueActions
          \/ request.name = cSpotify \o cPlaylist
             /\ request.args.action \notin PlaylistActions)
    => (last.escaped = "none" /\ ErrorResponse(last.resp) /\ last.calls = <<>>)

\* C4: Playback start with a track URI, in the scheme form or in the web
\* form, whose validation gives false returns the error "Invalid or
\* non-existent track URI. Please try another track." and makes no remote
\* start_playback request.
C4_InvalidTrackRejected ==
    (phase = "done" /\ request.hasArgs
       /\ request.name = cSpotify \o cPlayback
       /\ request.args.action = "start"
       /\ request.args.spotify_uri \in {uTrack, wTrack}
       /\ Fails(env, "is_valid"))
    => /\ last.escaped = "none"
       /\ last.resp.kind = "error"
       /\ last.resp.message =
              <<"Invalid or non-existent track URI. Please try another track.">>
       /\ ~HasCall(last.calls, "start_playback")

\* C5: Playback start without a URI, when the player holds a paused track:
\* the remote start_playback is requested with no uris and no context, and
\* the call returns a response that is not an error.
C5_ResumeSucceeds ==
    (phase = "done" /\ request.hasArgs
       /\ request.name = cSpotify \o cPlayback
       /\ request.args.action = "start"
       /\ request.args.spotify_uri = NoneV
       /\ env.player = [item |-> "track", is_playing |-> FALSE]
       /\ env.bad = {}
       /\ env.devices # <<>>)
    => /\ \E i \in 1..Len(last.calls) :
              /\ last.calls[i].op = "start_playback"
              /\ last.calls[i].args[1] = NoneV
              /\ last.calls[i].args[2] = NoneV
       /\ last.escaped = "none"
       /\ last.resp.kind \in {"text", "json"}
       /\ ~last.resp.error

\* The local endpoint answered 2xx with documents: a list of them, or an
\* object whose "documents" holds them.
LocalDocuments(o) ==
    o.local.status = "ok" /\ o.local.shape \in {"list", "dict"} /\ o.local.ndocs > 0

\* C6: when the local endpoint answers with a non-empty document list,
\* smart_search makes no remote search request.
C6_ShortCircuit ==
    (probe.method = "smart_search" /\ LocalDocuments(probe.o))
    => ~HasCall(probe.out.calls, "search")

\* C7: when the local endpoint answers with a non-empty document list,
\* smart_search returns results built from the local documents, at most
\* limit of them, total being their number.
C7_LocalResults ==
    (probe.method = "smart_search" /\ LocalDocuments(probe.o))
    => /\ probe.out.exc = "none"
       /\ probe.out.val.source = "local"
       /\ probe.out.val.total <= probe.limit

\* The local probe failed, or answered without documents.
NoLocalResult(o) ==
    \/ o.local.status \in {"timeout", "connection", "http_error", "no_url"}
    \/ o.local.status = "ok" /\ (o.local.shape = "null" \/ o.local.ndocs = 0)

\* C8: after any failure of the local probe, and after any local answer
\* without documents, smart_search makes exactly one remote search request,
\* with the same query, kind and limit, and returns its results; only a
\* failure of the remote search is raised.
C8_Fallback ==
    (probe.method = "smart_search" /\ NoLocalResult(probe.o))
    => /\ Cardinality({i \in 1..Len(probe.out.calls) :
                          probe.out.calls[i].op = "search"}) = 1
       /\ \A i \in 1..Len(probe.out.calls) :
              probe.out.calls[i].op = "search"
              => probe.out.calls[i].args = <<probe.query, probe.qtype, probe.limit>>
       /\ IF Fails(probe.o, "search")
          THEN probe.out.exc = probe.o.exc
          ELSE /\ probe.out.exc = "none"
               /\ probe.out.val = [source |-> "remote", query |-> probe.query,
                                   qtype |-> probe.qtype, limit |-> probe.limit,
                                   total |-> probe.o.hits]

\* The local probe timed out and the results of the remote search came
\* back.
C8_Witness ==
    /\ probe.method = "smart_search"
    /\ probe.o.local.status = "timeout"
    /\ probe.out.exc = "none"
    /\ probe.out.val.source = "remote"
    /\ HasCall(probe.out.calls, "local_search")

\* C9: get_playlist_tracks, as bound on Client, returns every track of
\* every page of the playlist's chain of pages, in page order.
C9_AllPlaylistTracks ==
    (probe.method = "get_playlist_tracks" /\ probe.out.exc = "none"
       /\ \A k \in 1..Len(probe.o.pages) : ~AlbumPageRaises(probe.o.pages, k))
    => probe.out.val = AllTracks(probe.o.pages, 1)

\* C10: get_album_tracks never has two page requests out at once; when it
\* returns it has made one request per page of the chain and its result is
\* the tracks of all pages in order; and every run ends.
C10_AlbumPagination ==
    /\ [](run.inflight <= 1)
    /\ [](run.pc = "done" => /\ run.fetches = Len(run.pages)
                             /\ run.tracks = AllTracks(run.pages, 1))
    /\ [](run.pc = "wait" => run.inflight = 1 /\ run.fetches = run.results + 1)
    /\ (run.pc = "call" ~> run.pc \in {"done", "raised"})

\* A chain of three pages of 2, 2 and 1 tracks was fetched in three
\* requests.
C10_Witness ==
    /\ run.pc = "done"
    /\ Len(run.pages) = 3
    /\ run.fetches = 3
    /\ Len(run.tracks) = 5
    /\ run.tracks = <<(<<1, 1>>), <<1, 2>>, <<2, 1>>, <<2, 2>>, <<3, 1>>>>

\* Every track entry of the pages from page k on, null entries left out.
RECURSIVE KeptTracks(_, _)
KeptTracks(pages, k) ==
    IF k > Len(pages) THEN <<>>
    ELSE parse_tracks(pages, k, 1) \o KeptTracks(pages, k + 1)

\* C11: get_playlist_tracks and get_album_tracks do not fail on a page that
\* holds null entries: with no failing request they return every other
\* entry of that page and of the later pages.
C11_NullEntriesSkipped ==
    (probe.method \in {"get_playlist_tracks", "get_album_tracks"}
       /\ probe.o.bad = {})
    => /\ probe.out.exc = "none"
       /\ probe.out.val = KeptTracks(probe.o.pages, 1)

\* C12: is_valid_track, is_valid_playlist, is_valid_album and
\* is_valid_artist never raise: they return false when the id cannot be
\* extracted or the lookup raises, and true only when the lookup succeeded.
C12_ValidationNeverRaises ==
    probe.method = "is_valid"
    => /\ probe.out.exc = "none"
       /\ probe.out.val \in BOOLEAN
       /\ probe.out.val <=> (/\ probe.uri # NoneV
                             /\ ~Fails(probe.o, "is_valid")
                             /\ probe.out.calls =
                                    <<Call(probe.op,
                                           <<_extract_id_from_uri(probe.uri)>>)>>)
       /\ (probe.uri = NoneV => probe.out.calls = <<>>)

\* A lookup that raised a SpotifyException gave false.
C12_Witness ==
    /\ probe.method = "is_valid"
    /\ probe.uri = uTrack
    /\ Fails(probe.o, "is_valid")
    /\ probe.o.exc = "SpotifyException"
    /\ probe.out.exc = "none"
    /\ probe.out.val = FALSE
    /\ HasCall(probe.out.calls, "track")

\* The requests of one kind among calls, in order.
CallsOf(calls, op) == SelectSeq(calls, LAMBDA c : c.op = op)

\* C13: add_to_queue, as bound on Client, follows the one-retry policy: the
\* first attempt names no device; when it fails and devices are listed,
\* exactly one further attempt is made against the first listed device and
\* the call succeeds with it; when no device is listed the call fails
\* without a further attempt; never more than two attempts.
C13_OneRetry ==
    (probe.method = "add_to_queue" /\ probe.o.bad = {})
    => /\ Len(CallsOf(probe.out.calls, "add_to_queue")) \in 1..2
       /\ CallsOf(probe.out.calls, "add_to_queue")[1].args = <<probe.track_id, "None">>
       /\ (probe.fails /\ probe.o.devices # <<>>)
          => /\ Len(CallsOf(probe.out.calls, "add_to_queue")) = 2
             /\ CallsOf(probe.out.calls, "add_to_queue")[2].args =
                    <<probe.track_id, probe.o.devices[1].id>>
             /\ probe.out.exc = "none"
       /\ (probe.fails /\ probe.o.devices = <<>>)
          => /\ Len(CallsOf(probe.out.calls, "add_to_queue")) = 1
             /\ probe.out.exc = "ConnectionError"
       /\ ~probe.fails
          => /\ Len(CallsOf(probe.out.calls, "add_to_queue")) = 1
             /\ probe.out.exc = "none"

\* A Queue add of a URI of one of the four kinds has run.
QueueAddDone ==
    /\ phase = "done"
    /\ request.hasArgs
    /\ request.name = cSpotify \o cQueue
    /\ request.args.action = "add"
    /\ ~Falsy(request.args.spotify_uri)
    /\ QueueKind(request.args.spotify_uri) # "unsupported"

\* The remote service as the call found it.
EnvState == [playback |-> env.player, devices |-> env.devices, pages |-> env.pages]

\* The expansion of the call's collection raises.
ExpansionRaises ==
    /\ QueueKind(request.args.spotify_uri) # "track"
    /\ Expand(QueueKind(request.args.spotify_uri), request.args.spotify_uri,
              Begin(env.user), EnvState, env).exc # "none"

\* The requests that only an expansion makes.
ExpansionOps == {"album_tracks", "next", "artist_top_tracks", "current_user"}

\* C14: Queue add makes no add-to-queue request before the validation
\* returned true and the collection was fully expanded: after a false
\* validation or a raising expansion the response is an error and no
\* add-to-queue request was made; no expansion request follows an
\* add-to-queue request; a successful add of a track URI makes exactly one
\* add-to-queue request.
C14_AddAfterExpansion ==
    QueueAddDone
    => /\ last.escaped = "none"
       /\ (Fails(env, "is_valid") \/ ExpansionRaises)
          => /\ last.resp.kind = "error"
             /\ ~HasCall(last.calls, "add_to_queue")
       /\ \A i, j \in 1..Len(last.calls) :
              (last.calls[i].op = "add_to_queue" /\ last.calls[j].op \in ExpansionOps)
              => j < i
       /\ HasCall(last.calls, "add_to_queue")
          => last.calls[1] =
                 Call(QueueKind(request.args.spotify_uri),
                      <<_extract_id_from_uri(request.args.spotify_uri)>>)
       /\ (QueueKind(request.args.spotify_uri) = "track" /\ last.resp.kind = "json")
          => /\ Len(CallsOf(last.calls, "add_to_queue")) = 1
             /\ CallsOf(last.calls, "add_to_queue")[1].args[1] =
                    request.args.spotify_uri

\* An album of three tracks on two pages was expanded and then added.
C14_Witness ==
    /\ QueueAddDone
    /\ request.args.spotify_uri = uAlbum
    /\ Len(env.pages) = 2
    /\ last.resp.kind = "json"
    /\ last.resp.data.count = 3
    /\ Len(CallsOf(last.calls, "add_to_queue")) = 3
    /\ HasCall(last.calls, "next")

\* An expansion that raised left the queue untouched.
C14_WitnessAbort ==
    /\ QueueAddDone
    /\ request.args.spotify_uri = uPlaylist
    /\ ExpansionRaises
    /\ ~Fails(env, "is_valid")
    /\ last.resp.kind = "error"

\* C15: when Queue add expands a collection and the add-to-queue request
\* for track k fails, the response reports a tracks-added count of k - 1,
\* the number of tracks added before the failure.
C15_PartialCount ==
    (QueueAddDone
       /\ QueueKind(request.args.spotify_uri) \in {"playlist", "album", "artist"}
       /\ env.addFailAt >= 1
       /\ Len(CallsOf(last.calls, "add_to_queue")) = env.addFailAt
       /\ last.raised # "none")
    => last.resp.data.count = env.addFailAt - 1

\* The remote request a Playlist action that changes a playlist makes.
ChangeOp(action) ==
    IF action = "add_tracks" THEN "playlist_add_items"
    ELSE IF action = "remove_tracks" THEN "playlist_remove_all_occurrences_of_items"
    ELSE "playlist_change_details"

ChangeSuccessTexts ==
    {<<"Tracks added to playlist.">>, <<"Tracks removed from playlist.">>,
     <<"Playlist details changed.">>}

\* C16: when the remote request of Playlist add_tracks, remove_tracks or
\* change_details fails, the call returns an error response that carries
\* the remote error's message, and never the success text.
C16_RemoteFailurePassedThrough ==
    (phase = "done" /\ request.hasArgs
       /\ request.name = cSpotify \o cPlaylist
       /\ request.args.action \in {"add_tracks", "remove_tracks", "change_details"}
       /\ HasCall(last.calls, ChangeOp(request.args.action))
       /\ Fails(env, ChangeOp(request.args.action)))
    => /\ last.resp.kind = "error"
       /\ \E i \in 1..Len(last.resp.message) : last.resp.message[i] = env.emsg
       /\ last.resp.message \notin ChangeSuccessTexts

\* Device i of the list is the one the policy picks: the first one flagged
\* active, or the first one when none is.
Picked(devs, i) ==
    \/ devs[i].is_active /\ \A j \in 1..(i - 1) : ~devs[j].is_active
    \/ i = 1 /\ \A j \in 1..Len(devs) : ~devs[j].is_active

\* C17: _get_candidate_device returns the first device in listing order
\* that is flagged active, or the first listed device when none is active;
\* it fails exactly when the device list is empty; is_active_device is true
\* exactly when some listed device is flagged active.
C17_CandidateDevice ==
    /\ (probe.method = "_get_candidate_device" /\ probe.o.bad = {})
       => /\ probe.out.exc # "none" <=> probe.o.devices = <<>>
          /\ probe.out.exc \in {"none", "ConnectionError"}
          /\ probe.out.exc = "none"
             => \E i \in 1..Len(probe.o.devices) :
                    /\ Picked(probe.o.devices, i)
                    /\ probe.out.val = probe.o.devices[i].id
    /\ (probe.method = "is_active_device" /\ probe.o.bad = {})
       => /\ probe.out.exc = "none"
          /\ probe.out.val <=> \E i \in 1..Len(probe.o.devices) :
                                   probe.o.devices[i].is_active

\* Of three devices the second and third are active: the second is picked.
C17_Witness ==
    /\ probe.method = "_get_candidate_device"
    /\ Len(probe.o.devices) = 3
    /\ ~probe.o.devices[1].is_active
    /\ probe.o.devices[2].is_active
    /\ probe.o.devices[3].is_active
    /\ probe.out.val = "d2"

\* The kinds of item and the ids the inputs are built from.
KindWords == {sTrack, sAlbum, sPlaylist, sArtist}
KindName(k) ==
    IF k = sTrack THEN "track" ELSE IF k = sAlbum THEN "album"
    ELSE IF k = sPlaylist THEN "playlist" ELSE "artist"
ItemIds == {<<"A">>, <<"B">>, <<"C">>, <<"D">>, <<"X">> \o sTrack}

\* service:kind:id and https://host/kind/id
ServiceForm(k, id) == sSpotify \o <<":">> \o k \o <<":">> \o id
WebForm(k, id) == sWebHost \o <<"/">> \o k \o <<"/">> \o id

\* C18: the resolver gives, for service:kind:id, the id equal to the last
\* segment and the kind equal to the second one; for https://host/kind/id
\* the same kind and id; a string in neither form comes back unchanged as
\* the id; no remote request is made.
C18_Resolve ==
    probe.method = "resolve"
    => /\ probe.out.exc = "none"
       /\ probe.out.calls = <<>>
       /\ \A k \in KindWords, id \in ItemIds :
              probe.uri \in {ServiceForm(k, id), WebForm(k, id)}
              => probe.out.val = [kind |-> KindName(k), id |-> id]
       /\ (\A k \in KindWords, id \in ItemIds :
               probe.uri \notin {ServiceForm(k, id), WebForm(k, id)})
          => probe.out.val.id = probe.uri

\* The part of it about the id of a well-formed input.
ResolvedId ==
    probe.method = "resolve"
    => \A k \in KindWords, id \in ItemIds :
           probe.uri \in {ServiceForm(k, id), WebForm(k, id)}
           => probe.out.val.id = id /\ probe.out.calls = <<>>

\* A playlist URI whose id holds the word track is taken for a track.
OddIdTakenForTrack ==
    /\ probe.method = "resolve"
    /\ probe.uri = uPlaylistOddId
    /\ probe.out.val = [kind |-> "track", id |-> <<"X">> \o sTrack]

\* C19: the username is fetched at most once: over any sequence of
\* searches only the first one reads the profile to set it, and a username
\* that is set is not changed or cleared by a later tool call.
C19_UsernameFetchedOnce ==
    /\ profileFetches <= 1
    /\ (phase = "done" /\ env.user # "None") => username = env.user

\* The part of it about a username that is set.
UsernameKept ==
    (phase = "done" /\ env.user # "None")
    => /\ username = env.user
       /\ request.name = cSpotify \o cSearch => ~HasCall(last.calls, "current_user")

\* A search found the username set and left it alone.
UsernameKeptWitness ==
    /\ phase = "done"
    /\ env.user = "me"
    /\ request.name = cSpotify \o cSearch
    /\ username = "me"

\* C20: get_artist_top_tracks never fails because of the profile lookup:
\* when reading the profile raises or the profile has no country, the top
\* tracks are still requested, for the market 'US'; otherwise they are
\* requested for the profile's country.
C20_MarketFallback ==
    probe.method = "get_artist_top_tracks"
    => /\ CallsOf(probe.out.calls, "artist_top_tracks") =
              <<Call("artist_top_tracks",
                     <<_extract_id_from_uri(probe.uri),
                       IF Fails(probe.o, "current_user") \/ probe.o.country = "missing"
                       THEN "US" ELSE probe.o.country>>)>>
       /\ probe.out.exc # "none"
          => \/ Fails(probe.o, "artist_top_tracks")
             \/ AlbumPageRaises(probe.o.pages, 1)
       /\ (~Fails(probe.o, "artist_top_tracks") /\ ~AlbumPageRaises(probe.o.pages, 1))
          => /\ probe.out.exc = "none"
             /\ Len(probe.out.val) = Len(probe.o.pages[1])

\* The profile could not be read and has a country: the top tracks of 'US'
\* came back.
C20_Witness ==
    /\ probe.method = "get_artist_top_tracks"
    /\ probe.o.bad = {"current_user"}
    /\ probe.o.country = "DE"
    /\ probe.out.exc = "none"
    /\ Len(probe.out.val) = 2
    /\ probe.out.calls[Len(probe.out.calls)].args[2] = "US"

\* A Playlist add_tracks or remove_tracks call has run.
TrackChangeDone ==
    /\ phase = "done"
    /\ request.hasArgs
    /\ request.name = cSpotify \o cPlaylist
    /\ request.args.action \in {"add_tracks", "remove_tracks"}

\* What the same call gives when track_ids is the literal list.
WithLiteralList ==
    Playlist([request.args EXCEPT !.track_ids.form = "list"], Begin(env.user),
             EnvState, env)

\* The parts of C21 about a JSON-encoded list and about a string that is
\* not JSON.
TrackIdsDecoded ==
    TrackChangeDone
    => /\ request.args.track_ids.form = "json_list"
          => last.calls = WithLiteralList.calls /\ last.resp = WithLiteralList.resp
       /\ request.args.track_ids.form = "bad_json"
          => /\ last.resp.kind = "error"
             /\ last.resp.message = <<"track_ids must be a list or a valid JSON array.">>
             /\ last.calls = <<>>

\* C21: for Playlist add_tracks and remove_tracks a JSON-encoded list gives
\* the same remote request as the literal list, a string that is not JSON
\* gives the error "track_ids must be a list or a valid JSON array." with no
\* remote request, and the value passed on to the client is always a list.
C21_TrackIdsAlwaysList ==
    TrackChangeDone
    => /\ request.args.track_ids.form = "json_list"
          => last.calls = WithLiteralList.calls
       /\ request.args.track_ids.form = "bad_json"
          => /\ last.resp.message = <<"track_ids must be a list or a valid JSON array.">>
             /\ last.calls = <<>>
       /\ \A i \in 1..Len(last.calls) :
              last.calls[i].op = ChangeOp(request.args.action)
              => last.calls[i].args[2].form = "list"

\* A JSON-encoded list reached the remote service as a list.
JsonListSent ==
    /\ TrackChangeDone
    /\ request.args.track_ids = [form |-> "json_list", n |-> 1]
    /\ HasCall(last.calls, "playlist_add_items")

\* C22: one tool call is fully processed before the next one runs: no
\* task is left suspended, and the requests and username writes of one
\* call are never interleaved with those of another call.
C22_NoInterleaving ==
    /\ \A t \in 1..Len(loop.tasks) : loop.tasks[t].state # "suspended"
    /\ \A i \in 1..(Len(loop.wire) - 1) :
           loop.wire[i].task # loop.wire[i + 1].task
           => \A k \in (i + 1)..Len(loop.wire) : loop.wire[k].task # loop.wire[i].task

\* An album enqueue was accepted first and ran after a search that was
\* accepted later and wrote the username.
C22_Witness ==
    /\ Len(loop.tasks) = 2
    /\ loop.tasks[1].state = "done"
    /\ loop.tasks[2].state = "done"
    /\ loop.tasks[1].args.spotify_uri = uAlbum
    /\ loop.tasks[2].name = cSpotify \o cSearch
    /\ loop.wire[1].task = 2
    /\ \E i \in 1..Len(loop.wire) : loop.wire[i] = [task |-> 2, op |-> "username"]
    /\ Len(SelectSeq(loop.wire, LAMBDA w : w = [task |-> 1, op |-> "add_to_queue"])) = 2

\* The words Queue add looks for, in the order it tries them.
KindPriority == <<sTrack, sPlaylist, sAlbum, sArtist>>

\* C23: Queue add takes the branch of the first of track, playlist, album,
\* artist that occurs anywhere in the URI; a URI that holds none of them
\* gets the 'Unsupported URI type' error with no remote request; an empty
\* or missing URI gets the 'spotify_uri is required' error.
C23_SubstringPriority ==
    (phase = "done" /\ request.hasArgs /\ request.name = cSpotify \o cQueue
       /\ request.args.action = "add")
    => /\ Falsy(request.args.spotify_uri)
          => /\ last.resp.kind = "error"
             /\ last.resp.message = <<"spotify_uri is required for the 'add' action.">>
             /\ last.calls = <<>>
       /\ (/\ ~Falsy(request.args.spotify_uri)
           /\ \A i \in 1..4 : ~Contains(request.args.spotify_uri, KindPriority[i]))
          => /\ last.resp.kind = "error"
             /\ last.resp.message =
                    <<"Unsupported URI type. Please provide a track, playlist, album, or artist URI.">>
             /\ last.calls = <<>>
       /\ \A i \in 1..4 :
              (/\ ~Falsy(request.args.spotify_uri)
               /\ Contains(request.args.spotify_uri, KindPriority[i])
               /\ \A j \in 1..(i - 1) :
                      ~Contains(request.args.spotify_uri, KindPriority[j]))
              => /\ Len(last.calls) >= 1
                 /\ last.calls[1].op = KindName(KindPriority[i])
                 /\ Fails(env, "is_valid")
                    => last.resp.message = <<InvalidUriMessage(KindName(KindPriority[i]))>>

\* A playlist URI whose id holds the word track was enqueued as one track.
C23_Witness ==
    /\ phase = "done"
    /\ request.name = cSpotify \o cQueue
    /\ request.args.action = "add"
    /\ request.args.spotify_uri = uPlaylistOddId
    /\ last.calls[1].op = "track"
    /\ last.resp.kind = "json"
    /\ last.resp.message = <<"Track added to queue successfully">>
    /\ Len(CallsOf(last.calls, "add_to_queue")) = 1

\* A Playback start with a URI has succeeded.
StartSucceeded ==
    /\ phase = "done"
    /\ request.hasArgs
    /\ request.name = cSpotify \o cPlayback
    /\ request.args.action = "start"
    /\ ~Falsy(request.args.spotify_uri)
    /\ last.resp.kind = "text"
    /\ HasCall(last.calls, "start_playback")

\* C24: after a successful Playback start with a URI, the confirmation
\* template of the response is of the same kind as the type of the info
\* that get_info fetched for that URI.
C24_TemplateMatchesInfo ==
    StartSucceeded => last.resp.data.template = last.resp.data.info

\* For the URIs of the form spotify:<kind>:<id> whose id holds no kind word
\* the two agree.
PlainUrisAgree ==
    (StartSucceeded /\ request.args.spotify_uri \in {uTrack, uAlbum, uPlaylist, uArtist})
    => /\ last.resp.data.template = last.resp.data.info
       /\ last.resp.data.info = InfoKind(request.args.spotify_uri)

\* An older playlist URI got the generic template and the info of a playlist.
UserPlaylistDisagrees ==
    /\ StartSucceeded
    /\ request.args.spotify_uri = uUserPlaylist
    /\ last.resp.data.template = "generic"
    /\ last.resp.data.info = "playlist"

\* A Playback pause has run.
PauseDone ==
    /\ phase = "done"
    /\ request.hasArgs
    /\ request.name = cSpotify \o cPlayback
    /\ request.args.action = "pause"

\* C25: the remote pause is requested only when the player reports
\* is_playing: a pause that finds the player paused or without playback
\* makes no remote pause request and, when a device is listed and no
\* request fails, still answers "Playback paused.".
C25_PauseIdempotent ==
    PauseDone
    => /\ HasCall(last.calls, "pause_playback")
          => env.player.item # "none" /\ env.player.is_playing
       /\ Len(CallsOf(last.calls, "pause_playback")) <= 1
       /\ (env.bad = {} /\ env.devices # <<>>)
          => /\ last.resp.kind = "text"
             /\ last.resp.message = <<"Playback paused.">>
             /\ HasCall(last.calls, "pause_playback") <=> env.player.is_playing
             /\ ~playback.is_playing

\* A pause found a paused track: no remote pause, and "Playback paused.".
C25_Witness ==
    /\ PauseDone
    /\ env.player = [item |-> "track", is_playing |-> FALSE]
    /\ HasCall(last.calls, "current_playback")
    /\ ~HasCall(last.calls, "pause_playback")
    /\ last.resp.message = <<"Playback paused.">>

\* With no device listed the pause is answered by an error.
PauseWithoutDevice ==
    /\ PauseDone
    /\ env.bad = {}
    /\ env.devices = <<>>
    /\ last.resp.kind = "error"
    /\ last.calls = <<Call("devices", <<>>), Call("devices", <<>>)>>

\* C25 as stated, for calls in which no remote request fails: a pause that
\* finds the player paused or without playback makes no remote pause
\* request and answers "Playback paused.".
C25_PauseAlwaysAnswers ==
    (PauseDone /\ env.bad = {} /\ ~env.player.is_playing)
    => /\ ~HasCall(last.calls, "pause_playback")
       /\ last.resp.message = <<"Playback paused.">>

====
